---- MODULE Spec2Model ----
(***************************************************************************)
(* Field-normalization layer of the IMDb scraping pipeline: the runtime    *)
(* parser, the vote-count parser, the rank/title splitter and the keyword  *)
(* genre classifier, as written in src/import.py, src/csv_loader.py and    *)
(* src/imdb_dashboard.py.                                                  *)
(*                                                                         *)
(* A Python str is a sequence of one-character strings.  An optional value *)
(* (None, NaN, a missing CSV cell) is the empty tuple and a present value  *)
(* v is the one-element tuple <<v>>.                                       *)
(***************************************************************************)
EXTENDS Integers, Sequences, FiniteSets, TLC

VARIABLES
    arg,     \* the argument the function under analysis is called with
    called,  \* name of the function that has been applied ("" before the call)
    res,     \* the value it returned (None before the call, and when it raised)
    raised,  \* the exception it let out to its caller ("" when it returned)
    pc,      \* scrape_imdb_page: where its load-more loop stands
    clicks,                \* scrape_imdb_page: local clicks
    consecutive_failures,  \* scrape_imdb_page: local consecutive_failures
    current_count,         \* scrape_imdb_page: local current_count
    driver,      \* scrape_imdb_page: local driver (None until one is created)
    items,       \* scrape_imdb_page: local items, the list elements found
    idx,         \* scrape_imdb_page: how many of the items have been processed
    rows,        \* scrape_imdb_page: local rows
    seen_urls,   \* scrape_imdb_page: local seen_urls
    quit_calls,  \* how often driver.quit() has been called
    cache,   \* what st.cache_data keeps of load_and_process_data: the set of
             \* <<argument, result>> of the calls made
    out_csv,     \* the file outcsv.csv (None while there is none)
    table,       \* load_to_mysql: the MySQL table imdb_2024 (None: no table)
    uniq_url     \* load_to_mysql: the table has the unique key uniq_url

vars ==
    <<arg, called, res, raised, pc, clicks, consecutive_failures, current_count,
      driver, items, idx, rows, seen_urls, quit_calls, cache, out_csv,
      table, uniq_url>>

\* the locals of the item loop of scrape_imdb_page, and its driver
scraped == <<driver, items, idx, rows, seen_urls, quit_calls>>

\* the file the scraper writes and load_to_mysql reads, and the MySQL table
\* load_to_mysql writes
database == <<out_csv, table, uniq_url>>

\* the locals of scrape_imdb_page
scraper == <<pc, clicks, consecutive_failures, current_count, scraped>>

\* the argument and the outcome of a call of one of the field functions
call == <<arg, called, res, raised>>

\* scrape_imdb_page is not running
ScraperIdle ==
    /\ pc = "idle"
    /\ clicks = 0
    /\ consecutive_failures = 0
    /\ current_count = 0
    /\ driver = << >>
    /\ items = << >>
    /\ idx = 0
    /\ rows = << >>
    /\ seen_urls = {}
    /\ quit_calls = 0

\* nothing was scraped and load_to_mysql has not run: there is no file and
\* the database holds no table
DatabaseIdle ==
    /\ out_csv = << >>
    /\ table = << >>
    /\ uniq_url = FALSE

(***************************************************************************)
(* Values and characters                                                   *)
(***************************************************************************)
None == << >>

NaN == << >>

Some(v) == <<v>>

isna(v) == v = NaN

DigitChars == {"0", "1", "2", "3", "4", "5", "6", "7", "8", "9"}

\* \d of the re module, on the ASCII range
IsDigit(c) == c \in DigitChars

\* \s of the re module and the characters str.strip() removes
IsSpace(c) == c \in {" ", "\t", "\n"}

DigitVal(c) ==
    CASE c = "0" -> 0 [] c = "1" -> 1 [] c = "2" -> 2 [] c = "3" -> 3
      [] c = "4" -> 4 [] c = "5" -> 5 [] c = "6" -> 6 [] c = "7" -> 7
      [] c = "8" -> 8 [] c = "9" -> 9

\* int(s) for a string of decimal digits
RECURSIVE int(_)
int(s) ==
    IF s = << >> THEN 0
    ELSE 10 * int(SubSeq(s, 1, Len(s) - 1)) + DigitVal(s[Len(s)])

\* all strings over alphabet A of length at most n
StringsUpTo(A, n) == UNION {[1..k -> A] : k \in 0..n}

(***************************************************************************)
(* Runtime parser: runtime_to_hours of the loader and of the dashboard     *)
(***************************************************************************)
NA == <<"N", "/", "A">>

\* The ends k of a match of (\d+)<c> that starts at position i: s[i..k] are
\* digits and s[k+1] is c.
DigitsThenEnds(s, i, c) ==
    {k \in i..(Len(s) - 1) :
        /\ s[k + 1] = c
        /\ \A p \in i..k : IsDigit(s[p])}

Max(S) == CHOOSE x \in S : \A y \in S : y <= x

Min(S) == CHOOSE x \in S : \A y \in S : x <= y

\* re.search(r'(\d+)<c>', s): the leftmost start with a match, the digits
\* taken greedily; group(1) wrapped, or None when nothing matches.
SearchDigitsThen(s, c) ==
    LET starts == {i \in 1..Len(s) : DigitsThenEnds(s, i, c) # {}}
    IN  IF starts = {} THEN None
        ELSE LET i == Min(starts)
             IN  Some(SubSeq(s, i, Max(DigitsThenEnds(s, i, c))))

\* the hundredths cut off in place of rounded
Round2HundredthsTruncating(hours, minutes) ==
    100 * hours + (100 * minutes) \div 60

\* round(hours + minutes / 60, 2), in hundredths of an hour.  The exact sum
\* is (60 * hours + minutes) / 60; round() goes to the nearest hundredth,
\* ties to even.  100 * minutes / 60 never lies on a tie, and for the
\* magnitudes modelled the double sum is far closer to the exact sum than to
\* a tie, so the nearest hundredth of the exact sum is the value returned.
Round2Hundredths(hours, minutes) ==
    LET q == (100 * minutes) \div 60
        r == (100 * minutes) % 60
        up == (2 * r > 60) \/ (2 * r = 60 /\ q % 2 = 1)
    IN  100 * hours + q + (IF up THEN 1 ELSE 0)

\* the sum returned whatever it is, without the test "total_hours > 0"
TotalHoursKeepsZero(s) ==
    LET hour_match == SearchDigitsThen(s, "h")
        min_match == SearchDigitsThen(s, "m")
        hours == IF hour_match # None THEN int(hour_match[1]) ELSE 0
        minutes == IF min_match # None THEN int(min_match[1]) ELSE 0
    IN  Some(Round2Hundredths(hours, minutes))

\* lines 43-56 of the loader, 72-81 of the dashboard
TotalHours(s) ==
    LET hour_match == SearchDigitsThen(s, "h")
        min_match == SearchDigitsThen(s, "m")
        hours == IF hour_match # None THEN int(hour_match[1]) ELSE 0
        minutes == IF min_match # None THEN int(min_match[1]) ELSE 0
    IN  IF 60 * hours + minutes > 0
        THEN Some(Round2Hundredths(hours, minutes))
        ELSE None

\* sys.float_info.max_10_exp: every int below 10^308 converts to a float,
\* none from 10^309 on does
FloatMaxExp10 == 308

\* the number of digits of a decimal numeral, leading zeros set aside
SignificantDigits(digits) ==
    LET nz == {i \in 1..Len(digits) : digits[i] # "0"}
    IN  IF nz = {} THEN 0 ELSE Len(digits) - Min(nz) + 1

\* "hours + (minutes / 60)" of lines 55 / 80 raises OverflowError: hours of
\* 10^309 or more do not convert to float, and minutes of 10^311 or more
\* give a quotient above every float.  (For hours of 309 digits, and
\* minutes of 310 or 311, the value decides; the model is given none.)
TotalHoursRaises(s) ==
    LET hour_match == SearchDigitsThen(s, "h")
        min_match == SearchDigitsThen(s, "m")
    IN  \/ hour_match # None /\ SignificantDigits(hour_match[1]) > FloatMaxExp10 + 1
        \/ min_match # None /\ SignificantDigits(min_match[1]) > FloatMaxExp10 + 3

\* csv_loader.py: runtime_to_hours lets the exception of line 55 out (there
\* is no try around lines 43-56)
loader_runtime_to_hours_raises(runtime_str) ==
    /\ ~isna(runtime_str)
    /\ runtime_str[1] # NA
    /\ TotalHoursRaises(runtime_str[1])

\* csv_loader.py: runtime_to_hours, the value returned when it returns
loader_runtime_to_hours(runtime_str) ==
    IF isna(runtime_str) \/ runtime_str[1] = NA THEN None
    ELSE TotalHours(runtime_str[1])

\* imdb_dashboard.py: runtime_to_hours; "except: return None" of lines 82-83
\* catches what lines 74-81 raise
dashboard_runtime_to_hours(runtime_str) ==
    IF isna(runtime_str) \/ runtime_str[1] \in {NA, << >>} THEN None
    ELSE IF TotalHoursRaises(runtime_str[1]) THEN None
    ELSE TotalHours(runtime_str[1])

\* ---- inputs of the runtime parser
MaxRuntimeLen == 5

MaxHours == 12

MaxMinutes == 130

RuntimeChars == {"0", "1", "9", "h", "m", " "}

RECURSIVE str(_)
\* str(n) for a non-negative int
str(n) ==
    LET d == <<"0", "1", "2", "3", "4", "5", "6", "7", "8", "9">>[(n % 10) + 1]
    IN  IF n < 10 THEN <<d>> ELSE Append(str(n \div 10), d)

RuntimeInputs ==
    {NaN} \cup {Some(NA)}
      \cup {Some(s) : s \in StringsUpTo(RuntimeChars, MaxRuntimeLen)}
      \cup {Some(str(h) \o <<"h", " ">> \o str(m) \o <<"m">>) :
                h \in 0..MaxHours, m \in 0..MaxMinutes}
      \cup {Some(str(h) \o <<"h">>) : h \in 0..MaxHours}
      \cup {Some(str(m) \o <<"m">>) : m \in 0..MaxMinutes}

\* runtimes whose number no float holds: 10^309 hours, 10^311 minutes
HugeHours ==
    [i \in 1..(FloatMaxExp10 + 3) |->
        IF i = 1 THEN "1" ELSE IF i = FloatMaxExp10 + 3 THEN "h" ELSE "0"]

HugeMinutes ==
    [i \in 1..(FloatMaxExp10 + 5) |->
        IF i = 1 THEN "1" ELSE IF i = FloatMaxExp10 + 5 THEN "m" ELSE "0"]

HugeRuntimes == {Some(HugeHours), Some(HugeMinutes)}

InitRuntime ==
    /\ arg \in RuntimeInputs \cup HugeRuntimes
    /\ called = ""
    /\ res = None
    /\ raised = ""
    /\ ScraperIdle
    /\ cache = {}
    /\ DatabaseIdle

LoaderRuntimeToHours ==
    /\ called = ""
    /\ called' = "csv_loader.runtime_to_hours"
    /\ raised' = (IF loader_runtime_to_hours_raises(arg) THEN "OverflowError" ELSE "")
    /\ res' = (IF loader_runtime_to_hours_raises(arg) THEN None
               ELSE loader_runtime_to_hours(arg))
    /\ UNCHANGED <<arg, scraper, cache, database>>

DashboardRuntimeToHours ==
    /\ called = ""
    /\ called' = "imdb_dashboard.runtime_to_hours"
    /\ res' = dashboard_runtime_to_hours(arg)
    /\ raised' = ""
    /\ UNCHANGED <<arg, scraper, cache, database>>

NextRuntime == LoaderRuntimeToHours \/ DashboardRuntimeToHours

SpecRuntime == InitRuntime /\ [][NextRuntime]_vars

RuntimeReturned ==
    called \in {"csv_loader.runtime_to_hours", "imdb_dashboard.runtime_to_hours"}

\* ---- the shapes "<h>h <m>m", "<h>h" and "<m>m", read off the string itself
AllDigits(s) == s # << >> /\ \A p \in 1..Len(s) : IsDigit(s[p])

\* the positions of the "h" that splits s into "<h>h <m>m"
HMSplits(s) ==
    {i \in 2..(Len(s) - 3) :
        /\ AllDigits(SubSeq(s, 1, i - 1))
        /\ s[i] = "h" /\ s[i + 1] = " "
        /\ AllDigits(SubSeq(s, i + 2, Len(s) - 1))
        /\ s[Len(s)] = "m"}

IsHOnly(s) == Len(s) >= 2 /\ s[Len(s)] = "h" /\ AllDigits(SubSeq(s, 1, Len(s) - 1))

IsMOnly(s) == Len(s) >= 2 /\ s[Len(s)] = "m" /\ AllDigits(SubSeq(s, 1, Len(s) - 1))

\* v (hundredths of an hour) is h + m/60 rounded to two decimals: it is
\* within half a hundredth of the exact value
IsRounded(v, h, m) ==
    LET f == v - 100 * h
    IN  /\ 3 * f - 5 * m <= 1
        /\ 5 * m - 3 * f <= 1

\* the result the claim asks for, for the hours h and minutes m written in s
ReturnsRounded(h, m) == res # None /\ IsRounded(res[1], h, m)

\* a runtime string of at most 12 characters: its numbers are held by a
\* float exactly, and their sum to far better than a hundredth
OrdinaryLength(s) == Len(s) <= 12

\* C1 (as stated): for every runtime string "<h>h <m>m", "<h>h" or "<m>m" the
\* result is h + m/60 rounded to two decimals, and for "N/A" or an absent
\* value it is undefined.
C1_RuntimeEqualsRoundedAlways ==
    RuntimeReturned =>
        /\ (isna(arg) \/ arg = Some(NA)) => res = None
        /\ (~isna(arg) /\ OrdinaryLength(arg[1])) =>
            LET s == arg[1]
            IN  /\ \A i \in HMSplits(s) :
                      ReturnsRounded(int(SubSeq(s, 1, i - 1)),
                                     int(SubSeq(s, i + 2, Len(s) - 1)))
                /\ IsHOnly(s) => ReturnsRounded(int(SubSeq(s, 1, Len(s) - 1)), 0)
                /\ IsMOnly(s) => ReturnsRounded(0, int(SubSeq(s, 1, Len(s) - 1)))

\* the result for hours h and minutes m, with the zero case of lines 56 / 81
ReturnsRoundedOrNone(h, m) ==
    IF h = 0 /\ m = 0 THEN res = None ELSE ReturnsRounded(h, m)

\* C1 (amended): for every runtime string "<h>h <m>m", "<h>h" or "<m>m" of at
\* most 12 characters with h + m/60 > 0 the result is h + m/60 rounded to two
\* decimals; when h and m are both zero the result is undefined; for "N/A"
\* or an absent value it is undefined.
C1_RuntimeEqualsRounded ==
    RuntimeReturned =>
        /\ (isna(arg) \/ arg = Some(NA)) => res = None
        /\ (~isna(arg) /\ OrdinaryLength(arg[1])) =>
            LET s == arg[1]
            IN  /\ \A i \in HMSplits(s) :
                      ReturnsRoundedOrNone(int(SubSeq(s, 1, i - 1)),
                                           int(SubSeq(s, i + 2, Len(s) - 1)))
                /\ IsHOnly(s) => ReturnsRoundedOrNone(int(SubSeq(s, 1, Len(s) - 1)), 0)
                /\ IsMOnly(s) => ReturnsRoundedOrNone(0, int(SubSeq(s, 1, Len(s) - 1)))

\* "2h 30m" has been parsed by the dashboard and gave 2.50
C1_Witness ==
    /\ called = "imdb_dashboard.runtime_to_hours"
    /\ arg = Some(<<"2", "h", " ", "3", "0", "m">>)
    /\ res = Some(250)

\* C2: the runtime parser never returns 0: every defined result is strictly
\* positive, and an input with no "<digits>h" and no "<digits>m" match (the
\* empty string included) or with both zero gives an undefined result.
C2_RuntimeNeverZero ==
    RuntimeReturned =>
        /\ res # None => res[1] > 0
        /\ ~isna(arg) =>
            LET s == arg[1]
                hasH == \E i \in 1..Len(s) : DigitsThenEnds(s, i, "h") # {}
                hasM == \E i \in 1..Len(s) : DigitsThenEnds(s, i, "m") # {}
            IN  /\ (~hasH /\ ~hasM) => res = None
                /\ s = <<"0", "h", " ", "0", "m">> => res = None

\* "0h 0m" has been parsed by the loader and gave no value
C2_Witness ==
    /\ called = "csv_loader.runtime_to_hours"
    /\ arg = Some(<<"0", "h", " ", "0", "m">>)
    /\ res = None

\* C16: both runtime parsers contain their own failures: an input on which
\* parsing raises gives an undefined result, and no exception leaves the
\* parser.
C16_RuntimeFailuresContained ==
    RuntimeReturned =>
        /\ raised = ""
        /\ (~isna(arg) /\ SignificantDigits(SelectSeq(arg[1], LAMBDA c : IsDigit(c))) > FloatMaxExp10 + 3)
               => res = None

(***************************************************************************)
(* Python numbers.  An int is unbounded: it is kept as its digits in base  *)
(* LimbBase, least significant first, with no leading zero (0 is the empty *)
(* sequence).  A float is an IEEE-754 double: a significand of at most     *)
(* MantissaBits bits and a binary exponent, every operation rounded to     *)
(* nearest, ties to even.                                                  *)
(***************************************************************************)
MantissaBits == 53

LimbBits == 15

LimbBase == 32768

RECURSIVE Pow2(_)
Pow2(n) == IF n = 0 THEN 1 ELSE 2 * Pow2(n - 1)

RECURSIVE BFromNat(_)
\* the limbs of a small natural number
BFromNat(n) ==
    IF n = 0 THEN << >> ELSE <<n % LimbBase>> \o BFromNat(n \div LimbBase)

RECURSIVE BMulAdd(_, _, _)
\* b * c + carry, for naturals c and carry below LimbBase
BMulAdd(b, c, carry) ==
    IF b = << >> THEN BFromNat(carry)
    ELSE LET t == b[1] * c + carry
         IN  <<t % LimbBase>> \o BMulAdd(Tail(b), c, t \div LimbBase)

\* one step of the long division of b by c: the quotient and remainder of
\* the higher limbs, then the lowest limb
BDivStep(hi, limb, c) ==
    LET t == hi.r * LimbBase + limb
        d == t \div c
    IN  [q |-> IF hi.q = << >> /\ d = 0 THEN << >> ELSE <<d>> \o hi.q,
         r |-> t % c]

RECURSIVE BDivMod(_, _)
\* quotient and remainder of b by the natural c, 0 < c < LimbBase
BDivMod(b, c) ==
    IF b = << >> THEN [q |-> << >>, r |-> 0]
    ELSE BDivStep(BDivMod(Tail(b), c), b[1], c)

RECURSIVE BFromDigits(_)
\* the int written by a string of decimal digits
BFromDigits(s) ==
    IF s = << >> THEN << >>
    ELSE BMulAdd(BFromDigits(SubSeq(s, 1, Len(s) - 1)), 10, DigitVal(s[Len(s)]))

RECURSIVE SmallBitLen(_)
SmallBitLen(n) == IF n = 0 THEN 0 ELSE 1 + SmallBitLen(n \div 2)

\* number of binary digits of b
BitLen(b) ==
    IF b = << >> THEN 0
    ELSE LimbBits * (Len(b) - 1) + SmallBitLen(b[Len(b)])

BIsOdd(b) == b # << >> /\ b[1] % 2 = 1

\* b * 2^n
BShiftLeft(b, n) ==
    IF b = << >> THEN << >>
    ELSE [i \in 1..(n \div LimbBits) |-> 0] \o BMulAdd(b, Pow2(n % LimbBits), 0)

\* floor(b / 2^n), and whether a non-zero bit was shifted out
BShiftRight(b, n) ==
    LET drop == n \div LimbBits
        kept == IF drop >= Len(b) THEN << >> ELSE SubSeq(b, drop + 1, Len(b))
        lost == \E i \in 1..drop : i <= Len(b) /\ b[i] # 0
        d == BDivMod(kept, Pow2(n % LimbBits))
    IN  [q |-> d.q, inexact |-> lost \/ d.r # 0]

RECURSIVE BDivPow10(_, _)
\* floor(b / 10^k), and whether anything was cut off
BDivPow10(b, k) ==
    IF k = 0 THEN [q |-> b, inexact |-> FALSE]
    ELSE LET first == BDivMod(b, 10)
             rest == BDivPow10(first.q, k - 1)
         IN  [q |-> rest.q, inexact |-> rest.inexact \/ first.r # 0]

\* The double nearest to b * 2^e (plus a positive fraction below one unit of
\* b when sticky): at most MantissaBits bits are kept, ties go to even.
RoundToDouble(b, e, sticky) ==
    IF BitLen(b) <= MantissaBits THEN [m |-> b, e |-> e]
    ELSE LET t == BitLen(b) - MantissaBits
             above == BShiftRight(b, t - 1)
             half == BIsOdd(above.q)
             keep == BShiftRight(above.q, 1).q
             low == sticky \/ above.inexact
             up == half /\ (low \/ BIsOdd(keep))
             m == IF up THEN BMulAdd(keep, 1, 1) ELSE keep
         IN  IF BitLen(m) > MantissaBits
             THEN [m |-> BShiftRight(m, 1).q, e |-> e + t + 1]
             ELSE [m |-> m, e |-> e + t]

\* float(text) for text matching \d+(?:\.\d+)?: the correctly rounded double
\* of the decimal numeral
float(text) ==
    LET dots == {i \in 1..Len(text) : text[i] = "."}
        dot == IF dots = {} THEN Len(text) + 1 ELSE Min(dots)
        frac == SubSeq(text, dot + 1, Len(text))
        n == BFromDigits(SubSeq(text, 1, dot - 1) \o frac)
        k == Len(frac)
        s == MantissaBits + 2 + 4 * k
        scaled == BDivPow10(BShiftLeft(n, s), k)
    IN  IF n = << >> THEN [m |-> << >>, e |-> 0]
        ELSE IF k = 0 THEN RoundToDouble(n, 0, FALSE)
        ELSE RoundToDouble(scaled.q, 0 - s, scaled.inexact)

\* f * 1000 in double arithmetic
FloatMul1000(f) ==
    IF f.m = << >> THEN f ELSE RoundToDouble(BMulAdd(f.m, 1000, 0), f.e, FALSE)

\* f * 1000000 in double arithmetic: the exact product, rounded once
FloatMul1000000(f) ==
    IF f.m = << >> THEN f
    ELSE RoundToDouble(BMulAdd(BMulAdd(f.m, 1000, 0), 1000, 0), f.e, FALSE)

\* int(f): truncation toward zero of a non-negative float
int_of_float(f) ==
    IF f.m = << >> THEN << >>
    ELSE IF f.e >= 0 THEN BShiftLeft(f.m, f.e)
    ELSE BShiftRight(f.m, 0 - f.e).q

(***************************************************************************)
(* Vote-count parser: parse_votes_to_int of the scraper and clean_votes of *)
(* the dashboard                                                           *)
(***************************************************************************)
\* str.strip(): the string between its first and its last non-space character
strip(s) ==
    LET keep == {i \in 1..Len(s) : ~IsSpace(s[i])}
    IN  IF keep = {} THEN << >> ELSE SubSeq(s, Min(keep), Max(keep))

\* s.replace(",", "")
remove_commas(s) == SelectSeq(s, LAMBDA c : c # ",")

\* str.upper() on the characters of a suffix
upper(c) == CASE c = "k" -> "K" [] c = "m" -> "M" [] OTHER -> c

\* [KM] under re.IGNORECASE
IsSuffixChar(c) == c \in {"K", "M", "k", "m"}

\* \d+(?:\.\d+)? over the whole of s
IsDecimalNumeral(s) ==
    \E a \in 1..Len(s) :
        /\ AllDigits(SubSeq(s, 1, a))
        /\ \/ a = Len(s)
           \/ /\ a + 1 < Len(s)
              /\ s[a + 1] = "."
              /\ AllDigits(SubSeq(s, a + 2, Len(s)))

\* re.match in place of re.fullmatch: text may follow the number and suffix
VotesPrefixMatch(v) ==
    LET ends == {n \in 1..Len(v) :
                    LET sfx == IF IsSuffixChar(v[n]) THEN 1 ELSE 0
                    IN  IsDecimalNumeral(SubSeq(v, 1, n - sfx))}
    IN  IF ends = {} THEN None
        ELSE LET n == Max(ends)
                 sfx == IF IsSuffixChar(v[n]) THEN 1 ELSE 0
             IN  Some([num |-> SubSeq(v, 1, n - sfx),
                       suffix |-> SubSeq(v, n - sfx + 1, n)])

\* re.fullmatch(r"(\d+(?:\.\d+)?)([KM]?)", v, flags=re.IGNORECASE): the two
\* groups, or None
VotesFullMatch(v) ==
    LET n == Len(v)
        sfx == IF n >= 1 /\ IsSuffixChar(v[n]) THEN 1 ELSE 0
        num == SubSeq(v, 1, n - sfx)
    IN  IF IsDecimalNumeral(num)
        THEN Some([num |-> num, suffix |-> SubSeq(v, n - sfx + 1, n)])
        ELSE None

\* import.py: parse_votes_to_int
parse_votes_to_int(v) ==
    IF v = None \/ v[1] = << >> \/ v[1] = NA THEN None
    ELSE LET w == remove_commas(strip(v[1]))
             m == VotesFullMatch(w)
         IN  IF m = None THEN None
             ELSE LET num == float(m[1].num)
                      suffix == IF m[1].suffix = << >> THEN ""
                                ELSE upper(m[1].suffix[1])
                  IN  Some(int_of_float(
                          IF suffix = "K" THEN FloatMul1000(num)
                          ELSE IF suffix = "M" THEN FloatMul1000000(num)
                          ELSE num))

\* pd.to_numeric(text, errors='coerce') on one string: the number a plain
\* decimal numeral writes (surrounding blanks allowed, digits on at least one
\* side of the point), NaN for anything else
to_numeric(text) ==
    LET w == strip(text)
        dots == {i \in 1..Len(w) : w[i] = "."}
        digits == SelectSeq(w, LAMBDA c : c # ".")
        padded == (IF w # << >> /\ w[1] = "." THEN <<"0">> ELSE << >>) \o w
                    \o (IF w # << >> /\ w[Len(w)] = "." THEN <<"0">> ELSE << >>)
    IN  IF Cardinality(dots) <= 1 /\ AllDigits(digits)
        THEN Some(float(padded))
        ELSE NaN

FloatZero == [m |-> << >>, e |-> 0]

\* imdb_dashboard.py: clean_votes.  A numeric cell is its decimal text.
clean_votes(votes_val) ==
    IF isna(votes_val) \/ votes_val[1] \in {NA, << >>} THEN Some(FloatZero)
    ELSE to_numeric(votes_val[1])

\* ---- inputs of the vote-count parsers
MaxVotesLen == 4

VoteChars == {"0", "1", "4", ".", ",", "K", "M", "m", " "}

VotesInputs ==
    {None} \cup {Some(NA)}
      \cup {Some(s) : s \in StringsUpTo(VoteChars, MaxVotesLen)}
      \cup {Some(<<"3", ".", "1", "M">>), Some(<<"9", "4", "6", "K">>),
            Some(<<"2", ",", "3", "4", "5">>), Some(<<"a", "b", "c">>)}

InitVotes ==
    /\ arg \in VotesInputs
    /\ called = ""
    /\ res = None
    /\ raised = ""
    /\ ScraperIdle
    /\ cache = {}
    /\ DatabaseIdle

ParseVotesToInt ==
    /\ called = ""
    /\ called' = "import.parse_votes_to_int"
    /\ res' = parse_votes_to_int(arg)
    /\ raised' = ""
    /\ UNCHANGED <<arg, scraper, cache, database>>

CleanVotes ==
    /\ called = ""
    /\ called' = "imdb_dashboard.clean_votes"
    /\ res' = clean_votes(arg)
    /\ raised' = ""
    /\ UNCHANGED <<arg, scraper, cache, database>>

NextVotes == ParseVotesToInt \/ CleanVotes

SpecVotes == InitVotes /\ [][NextVotes]_vars

\* ---- the vote-count grammar, as an automaton over the cleaned string
\* states: 0 start, 1 integer digits, 2 after the point, 3 fraction digits,
\* 4 after the suffix, 5 rejected
VoteStep(q, c) ==
    CASE q = 0 /\ IsDigit(c) -> 1
      [] q = 1 /\ IsDigit(c) -> 1
      [] q = 1 /\ c = "." -> 2
      [] q = 2 /\ IsDigit(c) -> 3
      [] q = 3 /\ IsDigit(c) -> 3
      [] q \in {1, 3} /\ c \in {"K", "k", "M", "m"} -> 4
      [] OTHER -> 5

RECURSIVE VoteRun(_, _)
VoteRun(s, q) == IF s = << >> THEN q ELSE VoteRun(Tail(s), VoteStep(q, s[1]))

RECURSIVE TrimLeft(_)
TrimLeft(s) == IF s # << >> /\ IsSpace(s[1]) THEN TrimLeft(Tail(s)) ELSE s

RECURSIVE TrimRight(_)
TrimRight(s) ==
    IF s # << >> /\ IsSpace(s[Len(s)]) THEN TrimRight(SubSeq(s, 1, Len(s) - 1))
    ELSE s

RECURSIVE DropCommas(_)
DropCommas(s) ==
    IF s = << >> THEN << >>
    ELSE (IF s[1] = "," THEN << >> ELSE <<s[1]>>) \o DropCommas(Tail(s))

\* the argument after stripping surrounding whitespace and removing commas
CleanedVotes == DropCommas(TrimLeft(TrimRight(arg[1])))

VotesWellFormed == arg # None /\ VoteRun(CleanedVotes, 0) \in {1, 3, 4}

IsPythonInt(b) ==
    /\ \A i \in 1..Len(b) : b[i] \in 0..(LimbBase - 1)
    /\ b # << >> => b[Len(b)] # 0

ExactVotes(w) ==
    LET last == w[Len(w)]
        numeral == IF IsDigit(last) THEN w ELSE SubSeq(w, 1, Len(w) - 1)
        digits == SelectSeq(numeral, LAMBDA c : c # ".")
        dots == {i \in 1..Len(numeral) : numeral[i] = "."}
        k == IF dots = {} THEN 0 ELSE Len(numeral) - Min(dots)
        n == BFromDigits(digits)
        scaled == IF last \in {"K", "k"} THEN BMulAdd(n, 1000, 0)
                  ELSE IF last \in {"M", "m"} THEN BMulAdd(BMulAdd(n, 1000, 0), 1000, 0)
                  ELSE n
    IN  BDivPow10(scaled, k).q

\* C4: for every matching input the result equals the numeric part times 1
\* (no suffix), 1,000 (K/k) or 1,000,000 (M/m), truncated toward zero to an
\* integer; "3.1M" gives 3100000, "946K" gives 946000, "2,345" gives 2345.
C4_VotesScaledAndTruncated ==
    (called = "import.parse_votes_to_int" /\ VotesWellFormed) =>
        res = Some(ExactVotes(CleanedVotes))

\* C5: a missing vote count (absent, "N/A" or "") is undefined in both paths,
\* never a number, and no missing or unparsable input yields 0.
C5_MissingVotesUndefined ==
    called \in {"import.parse_votes_to_int", "imdb_dashboard.clean_votes"} =>
        /\ (arg = None \/ arg = Some(NA) \/ arg = Some(<< >>)) => res = None
        /\ (arg # None /\ \A i \in 1..Len(arg[1]) : ~IsDigit(arg[1][i])) =>
               res # Some(FloatZero)

(***************************************************************************)
(* Rank/title splitter: normalize_title_and_rank of the scraper            *)
(***************************************************************************)
\* re.match(r"^(\d+)\.\s*(.*)$", s): groups 1 and 2, or None.  \d+ takes the
\* whole leading digit run (a "." must follow it).  \s* is greedy and gives
\* back one character at a time; "." matches anything but a line break; "$"
\* matches at the end and just before a line break that ends the string.
\* ws is the end of what \s* keeps, e the end of group 2.
RankTitleMatch(s) ==
    LET digitEnds == {a \in 1..(Len(s) - 1) :
                         AllDigits(SubSeq(s, 1, a)) /\ s[a + 1] = "."}
        a == Max(digitEnds)
        AtDollar(e) == e = Len(s) \/ (e = Len(s) - 1 /\ s[Len(s)] = "\n")
        GroupEnds(ws) ==
            {e \in ws..Len(s) :
                /\ \A p \in (ws + 1)..e : s[p] # "\n"
                /\ AtDollar(e)}
        wsEnds == {ws \in (a + 1)..Len(s) :
                      /\ \A p \in (a + 2)..ws : IsSpace(s[p])
                      /\ GroupEnds(ws) # {}}
    IN  IF digitEnds = {} \/ wsEnds = {} THEN None
        ELSE LET ws == Max(wsEnds)
             IN  Some([rank |-> SubSeq(s, 1, a),
                       rest |-> SubSeq(s, ws + 1, Max(GroupEnds(ws)))])

\* import.py: normalize_title_and_rank, returning <<rank, title>>
normalize_title_and_rank(h3_text) ==
    IF h3_text = None \/ h3_text[1] = << >> THEN <<None, NA>>
    ELSE LET m == RankTitleMatch(h3_text[1])
         IN  IF m # None THEN <<Some(int(m[1].rank)), strip(m[1].rest)>>
             ELSE <<None, strip(h3_text[1])>>

\* ---- inputs of the splitter
MaxHeadingLen == 5

HeadingChars == {"1", "2", ".", " ", "\n", "A"}

\* gentle_text() hands over element.text.strip(), or "" when it finds nothing
HeadingInputs ==
    {Some(s) : s \in {h \in StringsUpTo(HeadingChars, MaxHeadingLen) : strip(h) = h}}
      \cup {Some(<<"1", "2", ".", " ", "S", "o", "m", "e", " ",
                   "M", "o", "v", "i", "e">>),
            Some(<<"U", "n", "t", "i", "t", "l", "e", "d", " ",
                   "T", "h", "i", "n", "g">>)}

InitSplit ==
    /\ arg \in HeadingInputs
    /\ called = ""
    /\ res = None
    /\ raised = ""
    /\ ScraperIdle
    /\ cache = {}
    /\ DatabaseIdle

NormalizeTitleAndRank ==
    /\ called = ""
    /\ called' = "import.normalize_title_and_rank"
    /\ res' = normalize_title_and_rank(arg)
    /\ raised' = ""
    /\ UNCHANGED <<arg, scraper, cache, database>>

NextSplit == NormalizeTitleAndRank

SpecSplit == InitSplit /\ [][NextSplit]_vars

\* ---- the heading read as the claim reads it
\* the ends of a leading digit run that a period follows
LeadingRankEnds(s) ==
    {a \in 1..(Len(s) - 1) :
        /\ \A p \in 1..a : IsDigit(s[p])
        /\ s[a + 1] = "."}

Trimmed(s) == TrimLeft(TrimRight(s))

\* C6: for every non-empty heading, if it is leading digits, a period,
\* optional whitespace and a remainder, the result is (that integer, the
\* remainder trimmed); otherwise it is (undefined, the whole heading
\* trimmed).
C6_RankTitleSplit ==
    (called = "import.normalize_title_and_rank" /\ arg # None /\ arg[1] # << >>) =>
        LET s == arg[1]
        IN  IF LeadingRankEnds(s) # {}
            THEN LET a == Max(LeadingRankEnds(s))
                 IN  res = <<Some(int(SubSeq(s, 1, a))),
                             Trimmed(SubSeq(s, a + 2, Len(s)))>>
            ELSE res = <<None, Trimmed(s)>>

\* the same on the headings that hold no line break: there the code does what
\* C6 says
C6_RankTitleSplitSingleLine ==
    (arg # None /\ \A p \in 1..Len(arg[1]) : arg[1][p] # "\n") => C6_RankTitleSplit

\* C7: for a missing or empty heading the result is (undefined rank, empty
\* title).
C7_EmptyHeadingGivesEmptyTitle ==
    (called = "import.normalize_title_and_rank" /\ (arg = None \/ arg[1] = << >>)) =>
        res = <<None, << >> >>

(***************************************************************************)
(* Genre classifier: extract_genres of the loader and of the dashboard     *)
(***************************************************************************)
\* csv_loader.py: genre_keywords, in insertion order
loader_genre_keywords == <<
    [genre |-> <<"A", "c", "t", "i", "o", "n">>,
     keywords |-> <<
        <<"a", "c", "t", "i", "o", "n">>,
        <<"f", "i", "g", "h", "t">>,
        <<"w", "a", "r">>,
        <<"b", "a", "t", "t", "l", "e">>,
        <<"c", "o", "m", "b", "a", "t">>,
        <<"m", "a", "r", "t", "i", "a", "l">>
     >>],
    [genre |-> <<"R", "o", "m", "a", "n", "c", "e">>,
     keywords |-> <<
        <<"l", "o", "v", "e">>,
        <<"r", "o", "m", "a", "n", "c", "e">>,
        <<"w", "e", "d", "d", "i", "n", "g">>,
        <<"r", "o", "m", "a", "n", "t", "i", "c">>,
        <<"h", "e", "a", "r", "t">>
     >>],
    [genre |-> <<"H", "o", "r", "r", "o", "r">>,
     keywords |-> <<
        <<"h", "o", "r", "r", "o", "r">>,
        <<"s", "c", "a", "r", "y">>,
        <<"f", "e", "a", "r">>,
        <<"d", "a", "r", "k">>,
        <<"e", "v", "i", "l">>,
        <<"g", "h", "o", "s", "t">>,
        <<"z", "o", "m", "b", "i", "e">>
     >>],
    [genre |-> <<"C", "o", "m", "e", "d", "y">>,
     keywords |-> <<
        <<"c", "o", "m", "e", "d", "y">>,
        <<"f", "u", "n", "n", "y">>,
        <<"l", "a", "u", "g", "h">>,
        <<"h", "u", "m", "o", "r">>,
        <<"f", "u", "n">>
     >>],
    [genre |-> <<"D", "r", "a", "m", "a">>,
     keywords |-> <<
        <<"d", "r", "a", "m", "a">>,
        <<"l", "i", "f", "e">>,
        <<"s", "t", "o", "r", "y">>,
        <<"h", "u", "m", "a", "n">>,
        <<"f", "a", "m", "i", "l", "y">>
     >>],
    [genre |-> <<"S", "c", "i", "-", "F", "i">>,
     keywords |-> <<
        <<"s", "c", "i", "-", "f", "i">>,
        <<"s", "p", "a", "c", "e">>,
        <<"f", "u", "t", "u", "r", "e">>,
        <<"r", "o", "b", "o", "t">>,
        <<"a", "l", "i", "e", "n">>,
        <<"t", "i", "m", "e">>
     >>],
    [genre |-> <<"C", "r", "i", "m", "e">>,
     keywords |-> <<
        <<"c", "r", "i", "m", "e">>,
        <<"m", "u", "r", "d", "e", "r">>,
        <<"d", "e", "t", "e", "c", "t", "i", "v", "e">>,
        <<"p", "o", "l", "i", "c", "e">>,
        <<"c", "r", "i", "m", "i", "n", "a", "l">>
     >>],
    [genre |-> <<"A", "d", "v", "e", "n", "t", "u", "r", "e">>,
     keywords |-> <<
        <<"a", "d", "v", "e", "n", "t", "u", "r", "e">>,
        <<"j", "o", "u", "r", "n", "e", "y">>,
        <<"q", "u", "e", "s", "t">>,
        <<"t", "r", "e", "a", "s", "u", "r", "e">>,
        <<"e", "x", "p", "l", "o", "r", "a", "t", "i", "o", "n">>
     >>],
    [genre |-> <<"T", "h", "r", "i", "l", "l", "e", "r">>,
     keywords |-> <<
        <<"t", "h", "r", "i", "l", "l", "e", "r">>,
        <<"s", "u", "s", "p", "e", "n", "s", "e">>,
        <<"m", "y", "s", "t", "e", "r", "y">>,
        <<"d", "a", "n", "g", "e", "r", "o", "u", "s">>
     >>],
    [genre |-> <<"F", "a", "n", "t", "a", "s", "y">>,
     keywords |-> <<
        <<"f", "a", "n", "t", "a", "s", "y">>,
        <<"m", "a", "g", "i", "c">>,
        <<"w", "i", "z", "a", "r", "d">>,
        <<"d", "r", "a", "g", "o", "n">>,
        <<"f", "a", "i", "r", "y">>
     >>],
    [genre |-> <<"A", "n", "i", "m", "a", "t", "i", "o", "n">>,
     keywords |-> <<
        <<"a", "n", "i", "m", "a", "t", "i", "o", "n">>,
        <<"a", "n", "i", "m", "a", "t", "e", "d">>,
        <<"c", "a", "r", "t", "o", "o", "n">>
     >>],
    [genre |-> <<"D", "o", "c", "u", "m", "e", "n", "t", "a", "r", "y">>,
     keywords |-> <<
        <<"d", "o", "c", "u", "m", "e", "n", "t", "a", "r", "y">>,
        <<"r", "e", "a", "l">>,
        <<"t", "r", "u", "e">>,
        <<"d", "o", "c", "u", "m", "e", "n", "t", "a", "r", "y">>
     >>],
    [genre |-> <<"B", "i", "o", "g", "r", "a", "p", "h", "y">>,
     keywords |-> <<
        <<"b", "i", "o", "g", "r", "a", "p", "h", "y">>,
        <<"b", "i", "o">>,
        <<"l", "i", "f", "e", " ", "o", "f">>,
        <<"s", "t", "o", "r", "y", " ", "o", "f">>
     >>],
    [genre |-> <<"H", "i", "s", "t", "o", "r", "y">>,
     keywords |-> <<
        <<"h", "i", "s", "t", "o", "r", "y">>,
        <<"h", "i", "s", "t", "o", "r", "i", "c", "a", "l">>,
        <<"w", "a", "r">>,
        <<"a", "n", "c", "i", "e", "n", "t">>
     >>],
    [genre |-> <<"M", "u", "s", "i", "c">>,
     keywords |-> <<
        <<"m", "u", "s", "i", "c">>,
        <<"m", "u", "s", "i", "c", "a", "l">>,
        <<"s", "o", "n", "g">>,
        <<"b", "a", "n", "d">>,
        <<"c", "o", "n", "c", "e", "r", "t">>
     >>],
    [genre |-> <<"S", "p", "o", "r", "t">>,
     keywords |-> <<
        <<"s", "p", "o", "r", "t">>,
        <<"f", "o", "o", "t", "b", "a", "l", "l">>,
        <<"b", "a", "s", "k", "e", "t", "b", "a", "l", "l">>,
        <<"b", "a", "s", "e", "b", "a", "l", "l">>,
        <<"o", "l", "y", "m", "p", "i", "c">>
     >>],
    [genre |-> <<"W", "e", "s", "t", "e", "r", "n">>,
     keywords |-> <<
        <<"w", "e", "s", "t", "e", "r", "n">>,
        <<"c", "o", "w", "b", "o", "y">>,
        <<"f", "r", "o", "n", "t", "i", "e", "r">>
     >>],
    [genre |-> <<"F", "a", "m", "i", "l", "y">>,
     keywords |-> <<
        <<"f", "a", "m", "i", "l", "y">>,
        <<"k", "i", "d", "s">>,
        <<"c", "h", "i", "l", "d", "r", "e", "n">>,
        <<"k", "i", "d">>
     >>]
>>

\* imdb_dashboard.py: genre_keywords, in insertion order
dashboard_genre_keywords == <<
    [genre |-> <<"A", "c", "t", "i", "o", "n">>,
     keywords |-> <<
        <<"a", "c", "t", "i", "o", "n">>,
        <<"f", "i", "g", "h", "t">>,
        <<"w", "a", "r">>,
        <<"b", "a", "t", "t", "l", "e">>,
        <<"c", "o", "m", "b", "a", "t">>,
        <<"m", "a", "r", "t", "i", "a", "l">>,
        <<"w", "a", "r", "r", "i", "o", "r">>
     >>],
    [genre |-> <<"R", "o", "m", "a", "n", "c", "e">>,
     keywords |-> <<
        <<"l", "o", "v", "e">>,
        <<"r", "o", "m", "a", "n", "c", "e">>,
        <<"w", "e", "d", "d", "i", "n", "g">>,
        <<"r", "o", "m", "a", "n", "t", "i", "c">>,
        <<"h", "e", "a", "r", "t">>
     >>],
    [genre |-> <<"H", "o", "r", "r", "o", "r">>,
     keywords |-> <<
        <<"h", "o", "r", "r", "o", "r">>,
        <<"s", "c", "a", "r", "y">>,
        <<"f", "e", "a", "r">>,
        <<"d", "a", "r", "k">>,
        <<"e", "v", "i", "l">>,
        <<"g", "h", "o", "s", "t">>,
        <<"z", "o", "m", "b", "i", "e">>,
        <<"d", "e", "m", "o", "n">>
     >>],
    [genre |-> <<"C", "o", "m", "e", "d", "y">>,
     keywords |-> <<
        <<"c", "o", "m", "e", "d", "y">>,
        <<"f", "u", "n", "n", "y">>,
        <<"l", "a", "u", "g", "h">>,
        <<"h", "u", "m", "o", "r">>,
        <<"f", "u", "n">>,
        <<"c", "o", "m", "i", "c">>
     >>],
    [genre |-> <<"D", "r", "a", "m", "a">>,
     keywords |-> <<
        <<"d", "r", "a", "m", "a">>,
        <<"l", "i", "f", "e">>,
        <<"s", "t", "o", "r", "y">>,
        <<"h", "u", "m", "a", "n">>,
        <<"f", "a", "m", "i", "l", "y">>,
        <<"e", "m", "o", "t", "i", "o", "n", "a", "l">>
     >>],
    [genre |-> <<"S", "c", "i", "-", "F", "i">>,
     keywords |-> <<
        <<"s", "c", "i", "-", "f", "i">>,
        <<"s", "p", "a", "c", "e">>,
        <<"f", "u", "t", "u", "r", "e">>,
        <<"r", "o", "b", "o", "t">>,
        <<"a", "l", "i", "e", "n">>,
        <<"t", "i", "m", "e">>,
        <<"s", "c", "i", "e", "n", "c", "e">>
     >>],
    [genre |-> <<"C", "r", "i", "m", "e">>,
     keywords |-> <<
        <<"c", "r", "i", "m", "e">>,
        <<"m", "u", "r", "d", "e", "r">>,
        <<"d", "e", "t", "e", "c", "t", "i", "v", "e">>,
        <<"p", "o", "l", "i", "c", "e">>,
        <<"c", "r", "i", "m", "i", "n", "a", "l">>,
        <<"i", "n", "v", "e", "s", "t", "i", "g", "a", "t", "i", "o", "n">>
     >>],
    [genre |-> <<"A", "d", "v", "e", "n", "t", "u", "r", "e">>,
     keywords |-> <<
        <<"a", "d", "v", "e", "n", "t", "u", "r", "e">>,
        <<"j", "o", "u", "r", "n", "e", "y">>,
        <<"q", "u", "e", "s", "t">>,
        <<"t", "r", "e", "a", "s", "u", "r", "e">>,
        <<"e", "x", "p", "l", "o", "r", "a", "t", "i", "o", "n">>,
        <<"e", "x", "p", "e", "d", "i", "t", "i", "o", "n">>
     >>],
    [genre |-> <<"T", "h", "r", "i", "l", "l", "e", "r">>,
     keywords |-> <<
        <<"t", "h", "r", "i", "l", "l", "e", "r">>,
        <<"s", "u", "s", "p", "e", "n", "s", "e">>,
        <<"m", "y", "s", "t", "e", "r", "y">>,
        <<"d", "a", "n", "g", "e", "r", "o", "u", "s">>,
        <<"t", "e", "n", "s", "i", "o", "n">>
     >>],
    [genre |-> <<"F", "a", "n", "t", "a", "s", "y">>,
     keywords |-> <<
        <<"f", "a", "n", "t", "a", "s", "y">>,
        <<"m", "a", "g", "i", "c">>,
        <<"w", "i", "z", "a", "r", "d">>,
        <<"d", "r", "a", "g", "o", "n">>,
        <<"f", "a", "i", "r", "y">>,
        <<"m", "y", "t", "h", "i", "c", "a", "l">>
     >>],
    [genre |-> <<"A", "n", "i", "m", "a", "t", "i", "o", "n">>,
     keywords |-> <<
        <<"a", "n", "i", "m", "a", "t", "i", "o", "n">>,
        <<"a", "n", "i", "m", "a", "t", "e", "d">>,
        <<"c", "a", "r", "t", "o", "o", "n">>,
        <<"a", "n", "i", "m", "e">>
     >>],
    [genre |-> <<"D", "o", "c", "u", "m", "e", "n", "t", "a", "r", "y">>,
     keywords |-> <<
        <<"d", "o", "c", "u", "m", "e", "n", "t", "a", "r", "y">>,
        <<"r", "e", "a", "l">>,
        <<"t", "r", "u", "e">>,
        <<"d", "o", "c", "u", "m", "e", "n", "t", "a", "r", "y">>,
        <<"f", "a", "c", "t", "u", "a", "l">>
     >>],
    [genre |-> <<"B", "i", "o", "g", "r", "a", "p", "h", "y">>,
     keywords |-> <<
        <<"b", "i", "o", "g", "r", "a", "p", "h", "y">>,
        <<"b", "i", "o">>,
        <<"l", "i", "f", "e", " ", "o", "f">>,
        <<"s", "t", "o", "r", "y", " ", "o", "f">>,
        <<"b", "a", "s", "e", "d", " ", "o", "n">>
     >>],
    [genre |-> <<"H", "i", "s", "t", "o", "r", "y">>,
     keywords |-> <<
        <<"h", "i", "s", "t", "o", "r", "y">>,
        <<"h", "i", "s", "t", "o", "r", "i", "c", "a", "l">>,
        <<"a", "n", "c", "i", "e", "n", "t">>,
        <<"p", "e", "r", "i", "o", "d">>,
        <<"e", "r", "a">>
     >>],
    [genre |-> <<"M", "u", "s", "i", "c">>,
     keywords |-> <<
        <<"m", "u", "s", "i", "c">>,
        <<"m", "u", "s", "i", "c", "a", "l">>,
        <<"s", "o", "n", "g">>,
        <<"b", "a", "n", "d">>,
        <<"c", "o", "n", "c", "e", "r", "t">>,
        <<"s", "i", "n", "g", "e", "r">>
     >>],
    [genre |-> <<"S", "p", "o", "r", "t">>,
     keywords |-> <<
        <<"s", "p", "o", "r", "t">>,
        <<"f", "o", "o", "t", "b", "a", "l", "l">>,
        <<"b", "a", "s", "k", "e", "t", "b", "a", "l", "l">>,
        <<"b", "a", "s", "e", "b", "a", "l", "l">>,
        <<"o", "l", "y", "m", "p", "i", "c">>,
        <<"a", "t", "h", "l", "e", "t", "e">>
     >>],
    [genre |-> <<"W", "e", "s", "t", "e", "r", "n">>,
     keywords |-> <<
        <<"w", "e", "s", "t", "e", "r", "n">>,
        <<"c", "o", "w", "b", "o", "y">>,
        <<"f", "r", "o", "n", "t", "i", "e", "r">>,
        <<"w", "i", "l", "d", " ", "w", "e", "s", "t">>
     >>],
    [genre |-> <<"F", "a", "m", "i", "l", "y">>,
     keywords |-> <<
        <<"f", "a", "m", "i", "l", "y">>,
        <<"k", "i", "d", "s">>,
        <<"c", "h", "i", "l", "d", "r", "e", "n">>,
        <<"k", "i", "d">>,
        <<"c", "h", "i", "l", "d">>
     >>]
>>

UpperLetters ==
    <<"A", "B", "C", "D", "E", "F", "G", "H", "I", "J", "K", "L", "M",
      "N", "O", "P", "Q", "R", "S", "T", "U", "V", "W", "X", "Y", "Z">>

LowerLetters ==
    <<"a", "b", "c", "d", "e", "f", "g", "h", "i", "j", "k", "l", "m",
      "n", "o", "p", "q", "r", "s", "t", "u", "v", "w", "x", "y", "z">>

LowerChar(c) ==
    IF \E i \in 1..Len(UpperLetters) : UpperLetters[i] = c
    THEN LowerLetters[CHOOSE i \in 1..Len(UpperLetters) : UpperLetters[i] = c]
    ELSE c

\* str.lower()
lower(s) == [i \in 1..Len(s) |-> LowerChar(s[i])]

\* needle in hay, for Python strings
Contains(hay, needle) ==
    \E i \in 1..(Len(hay) - Len(needle) + 1) :
        \A j \in 1..Len(needle) : hay[i + j - 1] = needle[j]

RECURSIVE Join(_, _)
\* sep.join(parts)
Join(sep, parts) ==
    IF parts = << >> THEN << >>
    ELSE IF Len(parts) = 1 THEN parts[1]
    ELSE parts[1] \o sep \o Join(sep, Tail(parts))

CommaSpace == <<",", " ">>

Drama == <<"D", "r", "a", "m", "a">>

\* the loop of lines 92-94 / 113-115 without the default of lines 97-98 /
\* 116-117
MatchGenresNoDefault(title, genre_keywords) ==
    LET title_lower == lower(title)
        hit == SelectSeq(genre_keywords,
                   LAMBDA entry : \E k \in 1..Len(entry.keywords) :
                                      Contains(title_lower, entry.keywords[k]))
    IN  Join(CommaSpace, [i \in 1..Len(hit) |-> hit[i].genre])

\* the keywords looked up in the title as it is written, not lower-cased
MatchGenresCaseSensitive(title, genre_keywords) ==
    LET hit == SelectSeq(genre_keywords,
                   LAMBDA entry : \E k \in 1..Len(entry.keywords) :
                                      Contains(title, entry.keywords[k]))
        genres == [i \in 1..Len(hit) |-> hit[i].genre]
    IN  Join(CommaSpace, IF genres = << >> THEN <<Drama>> ELSE genres)

\* lines 66-100 of the loader, 91-118 of the dashboard: the genres whose
\* keywords occur in the lower-cased title, in the order of the table,
\* "Drama" when there is none, joined by ", "
MatchGenres(title, genre_keywords) ==
    LET title_lower == lower(title)
        hit == SelectSeq(genre_keywords,
                   LAMBDA entry : \E k \in 1..Len(entry.keywords) :
                                      Contains(title_lower, entry.keywords[k]))
        genres == [i \in 1..Len(hit) |-> hit[i].genre]
    IN  Join(CommaSpace, IF genres = << >> THEN <<Drama>> ELSE genres)

\* csv_loader.py: extract_genres
loader_extract_genres(title) ==
    IF isna(title) THEN Drama ELSE MatchGenres(title[1], loader_genre_keywords)

\* imdb_dashboard.py: extract_genres
dashboard_extract_genres(title, year) ==
    IF isna(title) THEN Drama ELSE MatchGenres(title[1], dashboard_genre_keywords)

\* ---- inputs of the classifier: titles of up to MaxTitleWords words
MaxTitleWords == 2

TitleWords == {
    <<"T", "h", "e">>,
    <<"L", "a", "s", "t">>,
    <<"W", "a", "r">>,
    <<"L", "O", "V", "E">>,
    <<"L", "i", "f", "e", "t", "i", "m", "e">>,
    <<"S", "t", "o", "r", "y">>,
    <<"o", "f">>,
    <<"X", "y", "z">>,
    <<"C", "h", "i", "l", "d">>,
    <<"k", "i", "d", "s">>
}

TheLastWar == <<"T", "h", "e", " ", "L", "a", "s", "t", " ", "W", "a", "r">>

TitleInputs ==
    {NaN} \cup {Some(TheLastWar)}
      \cup {Some(Join(<<" ">>, ws)) : ws \in StringsUpTo(TitleWords, MaxTitleWords)}

InitGenre ==
    /\ arg \in TitleInputs
    /\ called = ""
    /\ res = None
    /\ raised = ""
    /\ ScraperIdle
    /\ cache = {}
    /\ DatabaseIdle

LoaderExtractGenres ==
    /\ called = ""
    /\ called' = "csv_loader.extract_genres"
    /\ res' = loader_extract_genres(arg)
    /\ raised' = ""
    /\ UNCHANGED <<arg, scraper, cache, database>>

DashboardExtractGenres ==
    /\ called = ""
    /\ called' = "imdb_dashboard.extract_genres"
    /\ res' = dashboard_extract_genres(arg, NaN)
    /\ raised' = ""
    /\ UNCHANGED <<arg, scraper, cache, database>>

NextGenre == LoaderExtractGenres \/ DashboardExtractGenres

SpecGenre == InitGenre /\ [][NextGenre]_vars

GenresReturned ==
    called \in {"csv_loader.extract_genres", "imdb_dashboard.extract_genres"}

\* the table of the classifier that has been called
TableInUse ==
    IF called = "csv_loader.extract_genres" THEN loader_genre_keywords
    ELSE dashboard_genre_keywords

\* ---- the genre sequence written in a returned string "A, B, C"
RECURSIVE Pieces(_, _)
\* the pieces of s between the occurrences of character c
Pieces(s, c) ==
    LET at == {i \in 1..Len(s) : s[i] = c}
    IN  IF at = {} THEN <<s>>
        ELSE <<SubSeq(s, 1, Min(at) - 1)>> \o Pieces(SubSeq(s, Min(at) + 1, Len(s)), c)

GenreSeq(joined) ==
    LET ps == Pieces(joined, ",") IN [i \in 1..Len(ps) |-> Trimmed(ps[i])]

\* keyword kw occurs in the title, letter case of the title set aside
Occurs(kw, title) ==
    \E off \in 0..(Len(title) - Len(kw)) :
        \A j \in 1..Len(kw) : LowerChar(title[off + j]) = kw[j]

\* the positions in table T of the genres with a keyword occurring in title
MatchedIndexes(T, title) ==
    {g \in 1..Len(T) : \E k \in 1..Len(T[g].keywords) : Occurs(T[g].keywords[k], title)}

\* the position of a label in table T (0 when it is none of them)
IndexOf(T, label) ==
    IF \E g \in 1..Len(T) : T[g].genre = label
    THEN CHOOSE g \in 1..Len(T) : T[g].genre = label
    ELSE 0

\* C8: the genre sequence is never empty; for an absent title, and for a
\* title in which no keyword of any genre occurs, it is exactly ["Drama"].
C8_GenresNeverEmpty ==
    GenresReturned =>
        /\ GenreSeq(res) # << >>
        /\ \A i \in 1..Len(GenreSeq(res)) : GenreSeq(res)[i] # << >>
        /\ isna(arg) => GenreSeq(res) = <<Drama>>
        /\ (~isna(arg) /\ MatchedIndexes(TableInUse, arg[1]) = {}) =>
               GenreSeq(res) = <<Drama>>

\* "Xyz" has been classified by the loader and gave "Drama"
C8_Witness ==
    /\ called = "csv_loader.extract_genres"
    /\ arg = Some(<<"X", "y", "z">>)
    /\ res = Drama

\* the genre sequence is the genres at the positions at of table T, each
\* once, in the order of T
IsExactlyInTableOrder(seq, T, at) ==
    /\ \A i \in 1..Len(seq) : IndexOf(T, seq[i]) \in at
    /\ \A g \in at : \E i \in 1..Len(seq) : seq[i] = T[g].genre
    /\ \A i \in 1..(Len(seq) - 1) : IndexOf(T, seq[i]) < IndexOf(T, seq[i + 1])

\* C9 (as stated): for every title the result holds exactly the genres with a
\* keyword occurring in the lower-cased title, each once, in table order.
C9_ExactlyMatchedGenresAlways ==
    (GenresReturned /\ ~isna(arg)) =>
        IsExactlyInTableOrder(GenreSeq(res), TableInUse,
                              MatchedIndexes(TableInUse, arg[1]))

\* C9 (amended): for every title in which at least one keyword occurs, the
\* result holds exactly the genres with a keyword occurring in the
\* lower-cased title, each once, in table order; for a title in which none
\* occurs it is ["Drama"], although no keyword of Drama occurs.
C9_ExactlyMatchedGenres ==
    (GenresReturned /\ ~isna(arg)) =>
        IF MatchedIndexes(TableInUse, arg[1]) = {}
        THEN GenreSeq(res) = <<Drama>>
        ELSE IsExactlyInTableOrder(GenreSeq(res), TableInUse,
                                   MatchedIndexes(TableInUse, arg[1]))

\* "Lifetime LOVE" has been classified by the dashboard: Romance comes first
\* although "love" is the last word of the title
C9_Witness ==
    /\ called = "imdb_dashboard.extract_genres"
    /\ arg = Some(<<"L", "i", "f", "e", "t", "i", "m", "e", " ", "L", "O", "V", "E">>)
    /\ GenreSeq(res) = << <<"R", "o", "m", "a", "n", "c", "e">>, Drama,
                          <<"S", "c", "i", "-", "F", "i">> >>

\* the result of the classifier that has not been called, on the same title
OtherPathGenres ==
    IF called = "csv_loader.extract_genres"
    THEN dashboard_extract_genres(arg, NaN)
    ELSE loader_extract_genres(arg)

\* C11: the keyword table is the same in the two paths: for every title the
\* loader's and the dashboard's classifier return the same genre sequence,
\* hence the same primary genre.
C11_SameGenresInBothPaths ==
    GenresReturned =>
        /\ GenreSeq(res) = GenreSeq(OtherPathGenres)
        /\ GenreSeq(res)[1] = GenreSeq(OtherPathGenres)[1]

Action == <<"A", "c", "t", "i", "o", "n">>

\* C12: on "The Last War" the keyword "war" puts Action in the result and the
\* keywords of no other genre occur, so the genre sequence is exactly
\* ["Action"] and the primary genre is "Action", in the loader's and in the
\* dashboard's classifier.
C12_TheLastWarIsAction ==
    (GenresReturned /\ arg = Some(TheLastWar)) =>
        /\ MatchedIndexes(TableInUse, TheLastWar) = {IndexOf(TableInUse, Action)}
        /\ GenreSeq(res) = <<Action>>
        /\ GenreSeq(res)[1] = Action

(***************************************************************************)
(* The two ingestion paths: load_imdb_csv of the loader and                *)
(* load_and_process_data of the dashboard.  The CSV file is the sequence   *)
(* of its data rows as pd.read_csv delivers them, every cell a missing     *)
(* value or its text (a numeric cell is its decimal text); no file at all  *)
(* is None.  The pandas column operations act on each row alone, except    *)
(* the dashboard's test that some rating is present.                       *)
(***************************************************************************)
\* pd.to_numeric(column, errors='coerce') on one cell
to_numeric_cell(cell) == IF isna(cell) THEN NaN ELSE to_numeric(cell[1])

\* f < n for a non-negative float f and a small natural n
FloatLess(f, n) ==
    LET whole == int_of_float(f)
    IN  whole = << >> \/ (Len(whole) = 1 /\ whole[1] < n)

\* the buckets closed at the top: "<=" written for "<"
duration_category_upper_inclusive(hours) ==
    IF isna(hours) THEN "Unknown"
    ELSE IF hours[1] <= 150 THEN "Short (< 1.5h)"
    ELSE IF hours[1] <= 250 THEN "Medium (1.5-2.5h)"
    ELSE IF hours[1] <= 350 THEN "Long (2.5-3.5h)"
    ELSE "Very Long (> 3.5h)"

\* csv_loader.py: duration_category, hours in hundredths
loader_duration_category(hours) ==
    IF isna(hours) THEN "Unknown"
    ELSE IF hours[1] < 150 THEN "Short (< 1.5h)"
    ELSE IF hours[1] < 250 THEN "Medium (1.5-2.5h)"
    ELSE IF hours[1] < 350 THEN "Long (2.5-3.5h)"
    ELSE "Very Long (> 3.5h)"

\* imdb_dashboard.py: duration_category, hours in hundredths
dashboard_duration_category(hours) ==
    IF isna(hours) \/ hours[1] = 0 THEN "Unknown"
    ELSE IF hours[1] < 150 THEN "Short (< 1.5h)"
    ELSE IF hours[1] < 250 THEN "Medium (1.5-2.5h)"
    ELSE IF hours[1] < 350 THEN "Long (2.5-3.5h)"
    ELSE "Very Long (> 3.5h)"

\* f <= n for a non-negative float f and a small natural n
FloatLessOrEqual(f, n) ==
    \/ FloatLess(f, n)
    \/ /\ int_of_float(f) = BFromNat(n)
       /\ (f.e >= 0 \/ ~BShiftRight(f.m, 0 - f.e).inexact)

\* the buckets closed at the top: "<=" written for "<"
rating_category_upper_inclusive(rating) ==
    IF isna(rating) THEN "Unrated"
    ELSE IF FloatLessOrEqual(rating[1], 6) THEN "Poor (< 6.0)"
    ELSE IF FloatLessOrEqual(rating[1], 7) THEN "Average (6.0-7.0)"
    ELSE IF FloatLessOrEqual(rating[1], 8) THEN "Good (7.0-8.0)"
    ELSE IF FloatLessOrEqual(rating[1], 9) THEN "Excellent (8.0-9.0)"
    ELSE "Masterpiece (9.0+)"

\* csv_loader.py: rating_category
loader_rating_category(rating) ==
    IF isna(rating) THEN "Unrated"
    ELSE IF FloatLess(rating[1], 6) THEN "Poor (< 6.0)"
    ELSE IF FloatLess(rating[1], 7) THEN "Average (6.0-7.0)"
    ELSE IF FloatLess(rating[1], 8) THEN "Good (7.0-8.0)"
    ELSE IF FloatLess(rating[1], 9) THEN "Excellent (8.0-9.0)"
    ELSE "Masterpiece (9.0+)"

\* imdb_dashboard.py: rating_category
dashboard_rating_category(rating) ==
    IF isna(rating) THEN "Unrated"
    ELSE IF FloatLess(rating[1], 6) THEN "Poor (< 6.0)"
    ELSE IF FloatLess(rating[1], 7) THEN "Average (6.0-7.0)"
    ELSE IF FloatLess(rating[1], 8) THEN "Good (7.0-8.0)"
    ELSE IF FloatLess(rating[1], 9) THEN "Excellent (8.0-9.0)"
    ELSE "Masterpiece (9.0+)"

\* str.split(sep) for a one-character separator
split(s, sep) == Pieces(s, sep)

\* .str[-1] in place of .str[0]: the last piece
primary_genre_last_piece(genres) ==
    strip(split(genres, ",")[Len(split(genres, ","))])

\* df['Genres'].str.split(',').str[0].str.strip() on one cell
primary_genre(genres) == strip(split(genres, ",")[1])

\* lines 35-140 and 151 of csv_loader.py on one row
loader_row(raw) ==
    LET rating == to_numeric_cell(raw.Rating)
        hours == loader_runtime_to_hours(raw.Runtime)
        genres == loader_extract_genres(raw.Title)
    IN  [Title |-> raw.Title,
         Rating |-> rating,
         Duration_Hours |-> hours,
         Genres |-> genres,
         Primary_Genre |-> Some(primary_genre(genres)),
         Votes_Numeric |-> to_numeric_cell(raw.Votes_Numeric),
         Duration_Category |-> loader_duration_category(hours),
         Rating_Category |-> loader_rating_category(rating),
         Year |-> to_numeric_cell(raw.Year)]

\* load_imdb_csv with a drop_duplicates(subset=['Title'], keep='first')
\* after line 144: of the rows with one title the first in the file is kept
load_imdb_csv_first_per_title(file) ==
    IF file = None THEN None
    ELSE LET df == [i \in 1..Len(file[1]) |-> loader_row(file[1][i])]
             at == {i \in 1..Len(df) :
                       /\ ~isna(df[i].Title) /\ ~isna(df[i].Rating)
                       /\ \A j \in 1..(i - 1) : df[j].Title # df[i].Title}
             kept == SelectSeq([i \in 1..Len(df) |-> [row |-> df[i], keep |-> i \in at]],
                               LAMBDA e : e.keep)
         IN  Some([i \in 1..Len(kept) |-> kept[i].row])

\* csv_loader.py: load_imdb_csv; the rows returned, or None.  Whatever
\* lines 19-188 raise ends in "return None" (lines 190-201): no file, and
\* runtime_to_hours raising inside the apply of line 58.
load_imdb_csv(file) ==
    IF file = None THEN None
    ELSE IF \E i \in 1..Len(file[1]) : loader_runtime_to_hours_raises(file[1][i].Runtime)
    THEN None
    ELSE LET df == [i \in 1..Len(file[1]) |-> loader_row(file[1][i])]
         IN  Some(SelectSeq(df, LAMBDA row : ~isna(row.Title) /\ ~isna(row.Rating)))

\* the columns of one row once lines 66-172 of imdb_dashboard.py have run
dashboard_columns(raw, rating, hours, genres, year) ==
    [Title |-> raw.Title,
     Rating |-> rating,
     Duration_Hours |-> hours,
     Genres |-> genres,
     Primary_Genre |-> Some(primary_genre(genres)),
     Votes_Numeric |-> clean_votes(raw.Votes_Numeric),
     Duration_Category |-> dashboard_duration_category(hours),
     Rating_Category |-> dashboard_rating_category(rating),
     Year |-> year]

\* line 142: .fillna(2024)
fillna_2024(year) == IF isna(year) THEN Some(float(<<"2", "0", "2", "4">>)) ELSE year

\* lines 66-132, 142 and 156-172 of imdb_dashboard.py on one row
dashboard_row(raw) ==
    dashboard_columns(raw,
                      to_numeric_cell(raw.Rating),
                      dashboard_runtime_to_hours(raw.Runtime),
                      dashboard_extract_genres(raw.Title, raw.Year),
                      fillna_2024(to_numeric_cell(raw.Year)))

\* lines 135-136: the rows with a title that is not empty and not "N/A"
titled_rows(df) ==
    SelectSeq(df, LAMBDA row :
        ~isna(row.Title) /\ row.Title[1] # << >> /\ row.Title[1] # NA)

\* line 174: the rows with a primary genre
genre_rows(df) == SelectSeq(df, LAMBDA row : ~isna(row.Primary_Genre))

\* lines 138-140 and 174-182: no result when every rating is missing or no
\* row is left, else the rows with a primary genre
rows_or_none(df) ==
    IF \A i \in 1..Len(df) : isna(df[i].Rating) THEN None
    ELSE IF Len(genre_rows(df)) = 0 THEN None
    ELSE Some(genre_rows(df))

\* imdb_dashboard.py: load_and_process_data; the rows returned, or None
load_and_process_data(file) ==
    IF file = None THEN None
    ELSE rows_or_none(titled_rows([i \in 1..Len(file[1]) |-> dashboard_row(file[1][i])]))

\* imdb_dashboard.py line 53, @st.cache_data: the result kept from an earlier
\* call with this argument, else the function's own result
cached_load_and_process_data(file) ==
    IF \E e \in cache : e[1] = file
    THEN (CHOOSE e \in cache : e[1] = file)[2]
    ELSE load_and_process_data(file)

\* ---- the CSV files: up to MaxRows rows of these cells
MaxRows == 1

RawTitles == {NaN, Some(TheLastWar), Some(<<"X", "y", "z">>)}

RawRuntimes == {NaN, Some(<<"2", "h", " ", "3", "0", "m">>)}

RawRatings == {NaN, Some(<<"8", ".", "5">>), Some(<<"T", "B", "A">>)}

RawVotes == {NaN, Some(<<"9", "4", "6", "0", "0", "0">>)}

RawYears == {NaN, Some(<<"2", "0", "2", "4">>), Some(<<"T", "B", "A">>)}

RawRows ==
    [Title : RawTitles, Runtime : RawRuntimes, Rating : RawRatings,
     Votes_Numeric : RawVotes, Year : RawYears]

\* a row with every field present and well-formed, and one whose runtime no
\* float holds
GoodRow ==
    [Title |-> Some(TheLastWar), Runtime |-> Some(<<"2", "h", " ", "3", "0", "m">>),
     Rating |-> Some(<<"8", ".", "5">>), Votes_Numeric |-> Some(<<"9", "4", "6", "0", "0", "0">>),
     Year |-> Some(<<"2", "0", "2", "4">>)]

HugeRuntimeRow == [GoodRow EXCEPT !.Runtime = Some(HugeHours)]

CsvFiles ==
    {None} \cup {Some(rs) : rs \in StringsUpTo(RawRows, MaxRows)}
           \cup {Some(<<HugeRuntimeRow>>), Some(<<GoodRow, HugeRuntimeRow>>)}

Init ==
    /\ arg \in CsvFiles
    /\ called = ""
    /\ res = None
    /\ raised = ""
    /\ ScraperIdle
    /\ cache = {}
    /\ DatabaseIdle

LoadImdbCsv ==
    /\ called = ""
    /\ called' = "csv_loader.load_imdb_csv"
    /\ res' = load_imdb_csv(arg)
    /\ raised' = ""
    /\ UNCHANGED <<arg, scraper, cache, database>>

LoadAndProcessData ==
    /\ called = ""
    /\ called' = "imdb_dashboard.load_and_process_data"
    /\ res' = cached_load_and_process_data(arg)
    /\ cache' = cache \cup {<<arg, res'>>}
    /\ raised' = ""
    /\ UNCHANGED <<arg, scraper, database>>

Next == LoadImdbCsv \/ LoadAndProcessData

Spec == Init /\ [][Next]_vars

Loaded ==
    called \in {"csv_loader.load_imdb_csv", "imdb_dashboard.load_and_process_data"}

\* the genre table of the path that has run, and its labels
KeywordsInUse ==
    IF called = "csv_loader.load_imdb_csv" THEN loader_genre_keywords
    ELSE dashboard_genre_keywords

LabelsInUse == {KeywordsInUse[g].genre : g \in 1..Len(KeywordsInUse)}

\* C10: in every record either path produces, the primary genre is defined,
\* is a label of the genre table and is the first element of the record's
\* genre sequence; it is "Drama" when no keyword matches the title.
C10_PrimaryGenreDefined ==
    (Loaded /\ res # None) =>
        \A i \in 1..Len(res[1]) :
            LET row == res[1][i]
            IN  /\ ~isna(row.Primary_Genre)
                /\ row.Primary_Genre[1] \in LabelsInUse
                /\ row.Primary_Genre[1] = GenreSeq(row.Genres)[1]
                /\ MatchedIndexes(KeywordsInUse, row.Title[1]) = {} =>
                       row.Primary_Genre = Some(Drama)

\* the loader has produced a record for "The Last War" with the genres
\* "Action, History" and the primary genre "Action"
C10_Witness ==
    /\ called = "csv_loader.load_imdb_csv"
    /\ res # None
    /\ \E i \in 1..Len(res[1]) :
           /\ res[1][i].Title = Some(TheLastWar)
           /\ Len(GenreSeq(res[1][i].Genres)) = 2
           /\ res[1][i].Primary_Genre = Some(<<"A", "c", "t", "i", "o", "n">>)

\* ---- what a raw cell writes, read off its text
\* the cell holds a plain decimal number: digits, or digits "." digits
IsPlainNumber(cell) ==
    /\ ~isna(cell)
    /\ LET s == cell[1]
           dots == {i \in 1..Len(s) : s[i] = "."}
       IN  \/ AllDigits(s)
           \/ /\ Cardinality(dots) = 1
              /\ AllDigits(SubSeq(s, 1, Min(dots) - 1))
              /\ AllDigits(SubSeq(s, Min(dots) + 1, Len(s)))

\* the cell holds a runtime "<h>h <m>m", "<h>h" or "<m>m" of ordinary length
\* that is not zero
IsPlainRuntime(cell) ==
    /\ ~isna(cell)
    /\ OrdinaryLength(cell[1])
    /\ (HMSplits(cell[1]) # {} \/ IsHOnly(cell[1]) \/ IsMOnly(cell[1]))
    /\ \E p \in 1..Len(cell[1]) : IsDigit(cell[1][p]) /\ cell[1][p] # "0"

\* C15: row normalization never raises outward; a malformed or unparsable
\* field degrades to its missing representation and the other fields of the
\* record are still produced; the batch is never rejected as a whole (no
\* result) because of one record or one field.
C15_FieldFailuresContained ==
    (Loaded /\ arg # None /\ arg[1] # << >>) =>
        /\ raised = ""
        /\ res # None
        /\ Len(res[1]) = Len(arg[1])
        /\ \A i \in 1..Len(arg[1]) :
               LET raw == arg[1][i]
                   row == res[1][i]
               IN  /\ row.Title = raw.Title
                   /\ isna(row.Rating) <=> ~IsPlainNumber(raw.Rating)
                   /\ isna(row.Year) <=> ~IsPlainNumber(raw.Year)
                   /\ isna(row.Votes_Numeric) <=> ~IsPlainNumber(raw.Votes_Numeric)
                   /\ isna(row.Duration_Hours) <=> ~IsPlainRuntime(raw.Runtime)

\* the raw record with every field absent
AllAbsentRow ==
    [Title |-> NaN, Runtime |-> NaN, Rating |-> NaN, Votes_Numeric |-> NaN, Year |-> NaN]

\* C17: normalizing a raw record whose every field is absent never raises
\* and yields a record, present in the output, whose optional fields (year,
\* duration, rating, vote count) are undefined and whose genre sequence is
\* exactly ["Drama"].
C17_AllAbsentRecordKept ==
    (Loaded /\ arg # None /\ \E i \in 1..Len(arg[1]) : arg[1][i] = AllAbsentRow) =>
        /\ raised = ""
        /\ res # None
        /\ \E j \in 1..Len(res[1]) :
               LET row == res[1][j]
               IN  /\ isna(row.Title)
                   /\ isna(row.Year)
                   /\ isna(row.Duration_Hours)
                   /\ isna(row.Rating)
                   /\ isna(row.Votes_Numeric)
                   /\ GenreSeq(row.Genres) = <<Drama>>

\* the ways n returned rows can come, in order, from m rows of the file
Embeddings(n, m) ==
    {f \in [1..n -> 1..m] : \A i \in 1..n : \A j \in 1..n : i < j => f[i] < f[j]}

\* C18: in both paths a year or rating whose text is not a plain number is
\* undefined in the normalized record: nothing is raised and no defined
\* number takes its place.
C18_YearAndRatingCoerced ==
    (Loaded /\ arg # None) =>
        /\ raised = ""
        /\ res # None =>
               \E f \in Embeddings(Len(res[1]), Len(arg[1])) :
                   \A i \in 1..Len(res[1]) :
                       LET raw == arg[1][f[i]]
                           row == res[1][i]
                       IN  /\ row.Title = raw.Title
                           /\ ~IsPlainNumber(raw.Year) => isna(row.Year)
                           /\ ~IsPlainNumber(raw.Rating) => isna(row.Rating)

(***************************************************************************)
(* The categorizers on their own: duration_category on a Duration_Hours    *)
(* cell and rating_category on an 'IMDb Rating' cell, as the two paths     *)
(* apply them.                                                             *)
(***************************************************************************)
\* the Duration_Hours cells: what runtime_to_hours returns, in hundredths
DurationInputs ==
    {loader_runtime_to_hours(r) : r \in RuntimeInputs}
      \cup {dashboard_runtime_to_hours(r) : r \in RuntimeInputs}

InitDuration ==
    /\ arg \in DurationInputs
    /\ called = ""
    /\ res = None
    /\ raised = ""
    /\ ScraperIdle
    /\ cache = {}
    /\ DatabaseIdle

LoaderDurationCategory ==
    /\ called = ""
    /\ called' = "csv_loader.duration_category"
    /\ res' = loader_duration_category(arg)
    /\ raised' = ""
    /\ UNCHANGED <<arg, scraper, cache, database>>

DashboardDurationCategory ==
    /\ called = ""
    /\ called' = "imdb_dashboard.duration_category"
    /\ res' = dashboard_duration_category(arg)
    /\ raised' = ""
    /\ UNCHANGED <<arg, scraper, cache, database>>

NextDuration == LoaderDurationCategory \/ DashboardDurationCategory

SpecDuration == InitDuration /\ [][NextDuration]_vars

DurationCategorized ==
    called \in {"csv_loader.duration_category", "imdb_dashboard.duration_category"}

MaxRatingTenths == 100

RatingInputs ==
    {NaN} \cup {Some(NA), Some(<<"T", "B", "A">>)}
      \cup {Some(str(t \div 10) \o <<".">> \o str(t % 10)) : t \in 0..MaxRatingTenths}
      \cup {Some(str(t \div 10)) : t \in 0..MaxRatingTenths}

InitRating ==
    /\ arg \in RatingInputs
    /\ called = ""
    /\ res = None
    /\ raised = ""
    /\ ScraperIdle
    /\ cache = {}
    /\ DatabaseIdle

\* csv_loader.py lines 35 and 140: the cell made numeric, then categorized
LoaderRatingCategory ==
    /\ called = ""
    /\ called' = "csv_loader.rating_category"
    /\ res' = loader_rating_category(to_numeric_cell(arg))
    /\ raised' = ""
    /\ UNCHANGED <<arg, scraper, cache, database>>

\* imdb_dashboard.py lines 66 and 172: the cell made numeric, then categorized
DashboardRatingCategory ==
    /\ called = ""
    /\ called' = "imdb_dashboard.rating_category"
    /\ res' = dashboard_rating_category(to_numeric_cell(arg))
    /\ raised' = ""
    /\ UNCHANGED <<arg, scraper, cache, database>>

NextRating == LoaderRatingCategory \/ DashboardRatingCategory

SpecRating == InitRating /\ [][NextRating]_vars

RatingCategorized ==
    called \in {"csv_loader.rating_category", "imdb_dashboard.rating_category"}

\* the rating a cell writes, in tenths; None when the cell is absent or is
\* not digits with at most one decimal
RatingTenths(cell) ==
    IF isna(cell) THEN None
    ELSE LET s == cell[1]
         IN  IF AllDigits(s) THEN Some(10 * int(s))
             ELSE IF /\ Len(s) >= 3
                     /\ s[Len(s) - 1] = "."
                     /\ AllDigits(SubSeq(s, 1, Len(s) - 2))
                     /\ IsDigit(s[Len(s)])
                  THEN Some(10 * int(SubSeq(s, 1, Len(s) - 2)) + DigitVal(s[Len(s)]))
                  ELSE None

\* the label the other path's rating_category gives the same cell
OtherPathRatingCategory ==
    IF called = "csv_loader.rating_category"
    THEN dashboard_rating_category(to_numeric_cell(arg))
    ELSE loader_rating_category(to_numeric_cell(arg))

\* C14: an undefined rating maps to "Unrated"; a defined rating r maps to
\* exactly one label by lower-inclusive intervals: r < 6.0 Poor,
\* 6.0 <= r < 7.0 Average, 7.0 <= r < 8.0 Good, 8.0 <= r < 9.0 Excellent,
\* r >= 9.0 Masterpiece; the loader's and the dashboard's categorizer agree.
C14_RatingBuckets ==
    RatingCategorized =>
        LET r == RatingTenths(arg)
        IN  /\ r = None <=> res = "Unrated"
            /\ r # None =>
                   /\ r[1] < 60 <=> res = "Poor (< 6.0)"
                   /\ (60 <= r[1] /\ r[1] < 70) <=> res = "Average (6.0-7.0)"
                   /\ (70 <= r[1] /\ r[1] < 80) <=> res = "Good (7.0-8.0)"
                   /\ (80 <= r[1] /\ r[1] < 90) <=> res = "Excellent (8.0-9.0)"
                   /\ 90 <= r[1] <=> res = "Masterpiece (9.0+)"
            /\ res = OtherPathRatingCategory

\* the loader has put a rating of exactly 8.0 in the Excellent bucket
C14_Witness ==
    /\ called = "csv_loader.rating_category"
    /\ arg = Some(<<"8", ".", "0">>)
    /\ res = "Excellent (8.0-9.0)"

(***************************************************************************)
(* The same records loaded a second time, in any order: a loader is called *)
(* on a file and then again on a file with the same rows.  The dashboard's *)
(* load_and_process_data is wrapped in st.cache_data (line 53): called     *)
(* with the argument of an earlier call it returns the result kept from    *)
(* that call, and the results it keeps outlive the calls.                  *)
(***************************************************************************)
MaxRepeatRows == 2

RepeatRows ==
    [Title : {Some(TheLastWar), Some(<<"X", "y", "z">>)},
     Runtime : {Some(<<"2", "h", " ", "3", "0", "m">>)},
     Rating : {NaN, Some(<<"8", ".", "5">>)},
     Votes_Numeric : {Some(<<"9", "4", "6", "0", "0", "0">>)},
     Year : {NaN, Some(<<"2", "0", "2", "4">>)}]

RepeatFiles == {Some(rs) : rs \in StringsUpTo(RepeatRows, MaxRepeatRows)}

\* the orders n rows can be written in
RowOrders(n) ==
    {f \in [1..n -> 1..n] : \A i \in 1..n : \A j \in 1..n : f[i] = f[j] => i = j}

Reordered(file, order) == Some([i \in 1..Len(file[1]) |-> file[1][order[i]]])

InitRepeat ==
    /\ arg \in RepeatFiles
    /\ called = ""
    /\ res = None
    /\ raised = ""
    /\ ScraperIdle
    /\ cache = {}
    /\ DatabaseIdle

LoadImdbCsvAgain ==
    /\ called = "csv_loader.load_imdb_csv"
    /\ called' = "csv_loader.load_imdb_csv twice"
    /\ \E order \in RowOrders(Len(arg[1])) :
           /\ arg' = [first |-> arg, again |-> Reordered(arg, order)]
           /\ res' = [first |-> res, again |-> load_imdb_csv(Reordered(arg, order))]
    /\ raised' = ""
    /\ UNCHANGED <<scraper, cache, database>>

LoadAndProcessDataAgain ==
    /\ called = "imdb_dashboard.load_and_process_data"
    /\ called' = "imdb_dashboard.load_and_process_data twice"
    /\ \E order \in RowOrders(Len(arg[1])) :
           /\ arg' = [first |-> arg, again |-> Reordered(arg, order)]
           /\ res' = [first |-> res,
                      again |-> cached_load_and_process_data(Reordered(arg, order))]
           /\ cache' = cache \cup {<<arg'.again, res'.again>>}
    /\ raised' = ""
    /\ UNCHANGED <<scraper, database>>

NextRepeat ==
    \/ LoadImdbCsv
    \/ LoadAndProcessData
    \/ LoadImdbCsvAgain
    \/ LoadAndProcessDataAgain

SpecRepeat == InitRepeat /\ [][NextRepeat]_vars

LoadedTwice ==
    called \in {"csv_loader.load_imdb_csv twice",
                "imdb_dashboard.load_and_process_data twice"}

\* how often record r stands in the table rs
Count(rs, r) == Cardinality({i \in 1..Len(rs) : rs[i] = r})

\* two results hold the same records, each as often, or are both no result
SameRecords(a, b) ==
    IF a = None \/ b = None THEN a = b
    ELSE /\ Len(a[1]) = Len(b[1])
         /\ \A i \in 1..Len(a[1]) : Count(a[1], a[1][i]) = Count(b[1], a[1][i])

\* the same records give the same normalized records, and one title the
\* same genres
SameBothTimes ==
    /\ arg.again = arg.first => res.again = res.first
    /\ SameRecords(res.first, res.again)
    /\ (res.first # None /\ res.again # None) =>
           \A i \in 1..Len(res.first[1]) : \A j \in 1..Len(res.again[1]) :
               res.first[1][i].Title = res.again[1][j].Title =>
                   res.first[1][i].Genres = res.again[1][j].Genres

TARGET_MOVIES == 5000

MAX_LOAD_MORE_CLICKS == 100

\* the numbers of list items a count can find
ItemCounts == {0, 25, TARGET_MOVIES - 1, TARGET_MOVIES, TARGET_MOVIES + 25}

\* lines 259-297: the driver has been created and the page loaded; the loop
\* is about to test its condition for the first time
InitLoop ==
    /\ arg = None
    /\ called = ""
    /\ res = None
    /\ raised = ""
    /\ cache = {}
    /\ DatabaseIdle
    /\ pc = "while"
    /\ clicks = 0
    /\ consecutive_failures = 0
    /\ current_count = 0
    /\ driver = Some("webdriver.Chrome")
    /\ items = << >>
    /\ idx = 0
    /\ rows = << >>
    /\ seen_urls = {}
    /\ quit_calls = 0

\* line 299: the condition of the while
LoopCondition == clicks < MAX_LOAD_MORE_CLICKS /\ consecutive_failures < 5

\* line 299 false: on to line 319
LoopExit ==
    /\ pc = "while"
    /\ ~LoopCondition
    /\ pc' = "done"
    /\ UNCHANGED <<call, cache, database, scraped, clicks, consecutive_failures, current_count>>

\* lines 300-307: the items are counted; at the target the loop breaks
CountItems ==
    /\ pc = "while"
    /\ LoopCondition
    /\ \E n \in ItemCounts :
           /\ current_count' = n
           /\ pc' = (IF n >= TARGET_MOVIES THEN "done" ELSE "click")
    /\ UNCHANGED <<call, cache, database, scraped, clicks, consecutive_failures>>

\* a successful click that is not counted: line 310 left out
LoadMoreClickedNotCounted ==
    /\ pc = "click"
    /\ consecutive_failures' = 0
    /\ pc' = "while"
    /\ UNCHANGED <<call, cache, database, scraped, clicks, current_count>>

\* lines 309-313: click_load_more_if_any returned True
LoadMoreClicked ==
    /\ pc = "click"
    /\ clicks' = clicks + 1
    /\ consecutive_failures' = 0
    /\ pc' = "while"
    /\ UNCHANGED <<call, cache, database, scraped, current_count>>

\* lines 314-317: click_load_more_if_any returned False
LoadMoreFailed ==
    /\ pc = "click"
    /\ consecutive_failures' = consecutive_failures + 1
    /\ pc' = "while"
    /\ UNCHANGED <<call, cache, database, scraped, clicks, current_count>>

NextLoop == LoopExit \/ CountItems \/ LoadMoreClicked \/ LoadMoreFailed

SpecLoop == InitLoop /\ [][NextLoop]_vars

\* the statements of the loop run one after the other and each returns
SpecLoopFair == SpecLoop /\ WF_vars(NextLoop)

\* C20: the load-more loop always terminates, whatever the page does: it
\* is left after at most 100 successful clicks, or as soon as 5 attempts in
\* a row have failed, or as soon as the item count reaches TARGET_MOVIES;
\* throughout clicks <= 100 and consecutive_failures <= 5, and every
\* successful click resets consecutive_failures to 0.
C20_LoadMoreLoopTerminates ==
    /\ <>(pc = "done")
    /\ [](clicks <= 100 /\ consecutive_failures <= 5)
    /\ [](pc = "done" =>
            clicks = 100 \/ consecutive_failures = 5 \/ current_count >= 5000)
    /\ []((clicks = 100 \/ consecutive_failures = 5 \/ current_count >= 5000)
            => pc \in {"while", "done"})
    /\ [][clicks' # clicks => (clicks' = clicks + 1 /\ consecutive_failures' = 0)]_vars
    /\ [][(pc = "while" /\ (clicks = 100 \/ consecutive_failures = 5)) => pc' = "done"]_vars

\* the loop has been left after the hundredth successful click
C20_Witness ==
    /\ pc = "done"
    /\ clicks = MAX_LOAD_MORE_CLICKS
    /\ consecutive_failures = 0
    /\ current_count < TARGET_MOVIES

(***************************************************************************)
(* scrape_imdb_page as a whole (import.py lines 254-419): the driver is    *)
(* created, the page loaded, more results loaded by the loop above, the    *)
(* list items read one by one into rows, the driver released and the rows  *)
(* made a table.  A row is followed through the columns Rank, Title,       *)
(* Votes, Votes_Numeric and URL; Year, Runtime and IMDb Rating are strings *)
(* cut out of the item text that take no part in what follows.             *)
(***************************************************************************)
\* "truthy" for a str or None: neither None nor ""
Truthy(s) == s # None /\ s[1] # << >>

ImdbHost ==
    <<"h", "t", "t", "p", "s", ":", "/", "/",
      "w", "w", "w", ".", "i", "m", "d", "b", ".", "c", "o", "m">>

\* lines 358-359: a relative href is made absolute
absolute_href(href) ==
    IF Truthy(href) /\ href[1][1] = "/" THEN Some(ImdbHost \o href[1]) ELSE href

\* f"{rank}" for rank an int or None
format_rank(rank) == IF rank = None THEN <<"N", "o", "n", "e">> ELSE str(rank[1])

\* line 366: key = href or f"{title}_{rank}"
item_key(title, rank, href) ==
    IF Truthy(href) THEN href[1] ELSE title \o <<"_">> \o format_rank(rank)

\* parse_votes_to_int, lines 123-129: float(m.group(1)), scaled by its
\* suffix, is infinite and int(num) raises OverflowError.  The whole part
\* of the number has 310 digits or more, 307 with K, 304 with M.  (One digit
\* fewer and the value decides; the model is given none.)
parse_votes_to_int_raises(v) ==
    /\ Truthy(v)
    /\ v[1] # NA
    /\ LET m == VotesFullMatch(remove_commas(strip(v[1])))
           Whole(num) == SubSeq(num, 1, Min({i \in 1..Len(num) : num[i] = "."}
                                              \cup {Len(num) + 1}) - 1)
           Scale(sfx) == IF sfx = << >> THEN 0
                         ELSE IF upper(sfx[1]) = "K" THEN 3 ELSE 6
       IN  /\ m # None
           /\ SignificantDigits(Whole(m[1].num)) + Scale(m[1].suffix) > FloatMaxExp10 + 1

\* the rating the items of the model show before their votes
ARating == <<"8", ".", "5">>

\* lines 383-392: the row appended for an item.  The text of the items of
\* the model names no year and no runtime: extract_year and extract_runtime
\* (lines 157-163) give "N/A"
item_row(rank, title, href, votes_str) ==
    [Rank |-> rank,
     Title |-> IF title = << >> THEN NA ELSE title,
     Year |-> NA,
     Runtime |-> NA,
     IMDb_Rating |-> ARating,
     Votes |-> IF votes_str = << >> THEN NA ELSE votes_str,
     Votes_Numeric |-> parse_votes_to_int(Some(votes_str)),
     URL |-> IF Truthy(href) THEN href[1] ELSE NA]

\* lines 365-396 for an item with basic info and key k: a key seen before
\* skips the item; else the key is recorded and, unless parse_votes_to_int
\* raises (line 381; lines 394-396 then go on to the next item), the row is
\* appended
process_keyed(k, rank, title, href, votes_str, rws, seen) ==
    IF k \in seen THEN [rows |-> rws, seen_urls |-> seen]
    ELSE IF parse_votes_to_int_raises(Some(votes_str))
    THEN [rows |-> rws, seen_urls |-> seen \cup {k}]
    ELSE [rows |-> Append(rws, item_row(rank, title, href, votes_str)),
          seen_urls |-> seen \cup {k}]

\* lines 361-396 once rank, title and href are known
process_fields(rank, title, href, votes_str, rws, seen) ==
    IF title = << >> /\ ~Truthy(href) THEN [rows |-> rws, seen_urls |-> seen]
    ELSE process_keyed(item_key(title, rank, href), rank, title, href, votes_str, rws, seen)

\* lines 354-396 once the heading is split into rank and title
process_heading(rank_title, item, rws, seen) ==
    process_fields(rank_title[1], rank_title[2],
                   absolute_href(item.href), item.votes_str, rws, seen)

\* lines 348-396: one pass of the item loop
process_item(item, rws, seen) ==
    process_heading(normalize_title_and_rank(Some(item.h3_text)), item, rws, seen)

RECURSIVE drop_duplicates_url(_)
\* line 412: df.drop_duplicates(subset=['URL'], keep='first')
drop_duplicates_url(df) ==
    IF df = << >> THEN << >>
    ELSE LET last == df[Len(df)]
             before == SubSeq(df, 1, Len(df) - 1)
         IN  IF \E i \in 1..Len(before) : before[i].URL = last.URL
             THEN drop_duplicates_url(before)
             ELSE Append(drop_duplicates_url(before), last)

RECURSIVE InsertByRank(_, _)
\* row r put behind the rows of the sorted table s that do not come after it;
\* a missing Rank comes last
InsertByRank(s, r) ==
    IF s = << >> THEN <<r>>
    ELSE IF r.Rank # None /\ (s[1].Rank = None \/ r.Rank[1] < s[1].Rank[1])
    THEN <<r>> \o s
    ELSE <<s[1]>> \o InsertByRank(Tail(s), r)

RECURSIVE sort_values_by_rank(_)
\* line 417: df.sort_values(by="Rank", na_position="last"); rows of equal
\* Rank are left in the order they had
sort_values_by_rank(df) ==
    IF df = << >> THEN << >>
    ELSE InsertByRank(sort_values_by_rank(SubSeq(df, 1, Len(df) - 1)), df[Len(df)])

\* lines 416-417 on the table without duplicates
sorted_if_ranked(df) ==
    IF \E i \in 1..Len(df) : df[i].Rank # None THEN sort_values_by_rank(df) ELSE df

\* the table made of rows with line 412 left out
data_frame_with_duplicates(rws) == sorted_if_ranked(rws)

\* lines 408-419: the table made of rows
data_frame(rws) == sorted_if_ranked(drop_duplicates_url(rws))

\* ---- the list items of the page
MaxItems == 2

AnOrdinaryVotes == <<"9", "4", "6", "K">>

\* "1" and 309 zeros
HugeVotes == [i \in 1..(FloatMaxExp10 + 2) |-> IF i = 1 THEN "1" ELSE "0"]

TitleLink == <<"/", "t", "/", "1">>

TitleLinkInCapitals == <<"/", "T", "/", "1">>

\* what the item loop reads of a list item: the text of its h3, the href of
\* its link (None without one) and the votes extract_rating_votes finds
ItemKinds ==
    [h3_text : {<<"1", ".", " ", "A">>, <<"2", ".", " ", "B">>},
     href : {None, Some(TitleLink)},
     votes_str : {AnOrdinaryVotes}]
    \cup [h3_text : {<<"1", ".", " ", "A">>},
          href : {None, Some(TitleLink)},
          votes_str : {HugeVotes}]
    \cup {[h3_text |-> <<"1", ".">>, href |-> None, votes_str |-> AnOrdinaryVotes],
          [h3_text |-> <<"2", ".", " ", "B">>, href |-> Some(ImdbHost \o TitleLink),
           votes_str |-> AnOrdinaryVotes],
          [h3_text |-> <<"2", ".", " ", "B">>, href |-> Some(TitleLinkInCapitals),
           votes_str |-> AnOrdinaryVotes]}

Pages == StringsUpTo(ItemKinds, MaxItems)

InitScrape ==
    /\ arg = None
    /\ called = "import.scrape_imdb_page"
    /\ res = None
    /\ raised = ""
    /\ cache = {}
    /\ DatabaseIdle
    /\ pc = "start"
    /\ clicks = 0
    /\ consecutive_failures = 0
    /\ current_count = 0
    /\ driver = None
    /\ items = << >>
    /\ idx = 0
    /\ rows = << >>
    /\ seen_urls = {}
    /\ quit_calls = 0

\* the states the load-more loop is left in: at its first count the target
\* is reached; MAX_LOAD_MORE_CLICKS clicks have succeeded; 5 attempts in a
\* row have failed
LoopEnds ==
    {[clicks |-> 0, consecutive_failures |-> 0, current_count |-> TARGET_MOVIES],
     [clicks |-> MAX_LOAD_MORE_CLICKS, consecutive_failures |-> 0,
      current_count |-> TARGET_MOVIES - 1],
     [clicks |-> 0, consecutive_failures |-> 5, current_count |-> 0]}

\* line 259: create_chrome_driver() returns a driver, or raises (line 113)
CreateChromeDriver ==
    /\ pc = "start"
    /\ \/ driver' = Some("webdriver.Chrome") /\ pc' = "get"
       \/ driver' = None /\ pc' = "except"
    /\ UNCHANGED <<call, cache, database, clicks, consecutive_failures, current_count,
                   items, idx, rows, seen_urls, quit_calls>>

\* lines 262-266: driver.get(url) returns or raises
DriverGet ==
    /\ pc = "get"
    /\ pc' \in {"wait", "except"}
    /\ UNCHANGED <<call, cache, database, clicks, consecutive_failures, current_count, scraped>>

\* lines 269-297: a selector is found and the loop is entered; or every wait
\* times out and line 290 returns; or a wait raises something else
WaitForContent ==
    /\ pc = "wait"
    /\ \/ pc' = "while" /\ clicks' = 0 /\ consecutive_failures' = 0
       \/ pc' = "return" /\ UNCHANGED <<clicks, consecutive_failures>>
       \/ pc' = "except" /\ UNCHANGED <<clicks, consecutive_failures>>
    /\ UNCHANGED <<call, cache, database, current_count, scraped>>

\* lines 295-319 from the first test of the loop to its end, in one step;
\* SpecLoop follows the loop test by test
LoadMore ==
    /\ pc = "while"
    /\ \E end \in LoopEnds :
           /\ clicks' = end.clicks
           /\ consecutive_failures' = end.consecutive_failures
           /\ current_count' = end.current_count
    /\ pc' = "done"
    /\ UNCHANGED <<call, cache, database, scraped>>

\* lines 319-341: the items of the page are collected
CollectItems ==
    /\ pc = "done"
    /\ driver # None
    /\ items' \in Pages
    /\ idx' = 0
    /\ pc' = "for"
    /\ UNCHANGED <<call, cache, database, clicks, consecutive_failures, current_count,
                   driver, rows, seen_urls, quit_calls>>

\* lines 344-396: the next item is processed
ProcessItem ==
    /\ pc = "for"
    /\ idx < Len(items)
    /\ LET processed == process_item(items[idx + 1], rows, seen_urls)
       IN  rows' = processed.rows /\ seen_urls' = processed.seen_urls
    /\ idx' = idx + 1
    /\ UNCHANGED <<call, cache, database, pc, clicks, consecutive_failures, current_count,
                   driver, items, quit_calls>>

\* line 344: no item is left
ItemsExhausted ==
    /\ pc = "for"
    /\ idx = Len(items)
    /\ pc' = "finally"
    /\ UNCHANGED <<call, cache, database, clicks, consecutive_failures, current_count, scraped>>

\* lines 398-399: the exception is logged
ExceptException ==
    /\ pc = "except"
    /\ pc' = "finally"
    /\ UNCHANGED <<call, cache, database, clicks, consecutive_failures, current_count, scraped>>

\* lines 400-405 without the call of quit
FinallyNoQuit ==
    /\ pc \in {"finally", "return"}
    /\ pc' = (IF pc = "return" THEN "returned" ELSE "dataframe")
    /\ res' = (IF pc = "return" THEN Some(<< >>) ELSE res)
    /\ UNCHANGED <<arg, called, raised, cache, database, clicks, consecutive_failures,
                   current_count, scraped>>

\* lines 400-405: driver.quit() is called on a driver, and what it raises is
\* dropped; line 290 then returns its empty table
Finally ==
    /\ pc \in {"finally", "return"}
    /\ quit_calls' = (IF driver # None THEN quit_calls + 1 ELSE quit_calls)
    /\ pc' = (IF pc = "return" THEN "returned" ELSE "dataframe")
    /\ res' = (IF pc = "return" THEN Some(<< >>) ELSE res)
    /\ UNCHANGED <<arg, called, raised, cache, database, clicks, consecutive_failures,
                   current_count, driver, items, idx, rows, seen_urls>>

\* lines 407-419: the table is made and returned
ReturnDataFrame ==
    /\ pc = "dataframe"
    /\ res' = Some(data_frame(rows))
    /\ pc' = "returned"
    /\ UNCHANGED <<arg, called, raised, cache, database, clicks, consecutive_failures,
                   current_count, scraped>>

(***************************************************************************)
(* outcsv.csv and load_to_mysql.py.  A CSV file is its header, the         *)
(* sequence of its column names, and its lines, each the sequence of the   *)
(* texts of its cells (the empty text for an empty cell).  Values are kept *)
(* as their text: the types pd.read_csv infers and those of dtype_map      *)
(* (lines 61-70) are not modelled, every value is taken to fit its column. *)
(***************************************************************************)
\* load_to_mysql.py line 20
EXPECTED_COLS ==
    <<"Rank", "Title", "Year", "Runtime", "IMDb Rating", "Votes", "Votes_Numeric", "URL">>

\* the text df.to_csv writes for a rank (an int) or a missing value
csv_number(n) == IF n = None THEN << >> ELSE str(n[1])

RECURSIVE BToDigits(_)
\* the decimal digits that write the int b, none for 0
BToDigits(b) ==
    IF b = << >> THEN << >>
    ELSE LET d == BDivMod(b, 10)
         IN  Append(BToDigits(d.q), str(d.r)[1])

\* the text df.to_csv writes for a vote count or a missing value
csv_votes(n) ==
    IF n = None THEN << >>
    ELSE IF n[1] = << >> THEN <<"0">> ELSE BToDigits(n[1])

\* import.py line 433: df.to_csv(OUT_CSV, index=False) of the table of
\* scrape_imdb_page, whose columns are those of lines 383-392
to_csv(df) ==
    [header |-> <<"Rank", "Title", "Year", "Runtime", "IMDb Rating", "Votes",
                  "Votes_Numeric", "URL">>,
     lines |-> [i \in 1..Len(df) |->
                   <<csv_number(df[i].Rank), df[i].Title, df[i].Year, df[i].Runtime,
                     df[i].IMDb_Rating, df[i].Votes, csv_votes(df[i].Votes_Numeric),
                     df[i].URL>>]]

\* import.py lines 429-433: the main program saves a table that is not
\* empty
SaveCsv ==
    /\ pc = "returned"
    /\ res[1] # << >>
    /\ out_csv = None
    /\ out_csv' = Some(to_csv(res[1]))
    /\ UNCHANGED <<call, cache, table, uniq_url, scraper>>

\* the cell texts pd.read_csv takes for a missing value (of its default
\* na_values, those the files of the model hold)
NaValues == {NA, << >>}

\* where column c stands in the header
ColumnAt(header, c) == CHOOSE k \in 1..Len(header) : header[k] = c

\* line 23: pd.read_csv(CSV_PATH): a row per line, giving each column of the
\* header its value, None for a missing one
read_csv(csv) ==
    [i \in 1..Len(csv.lines) |->
        [c \in {csv.header[k] : k \in 1..Len(csv.header)} |->
            LET cell == csv.lines[i][ColumnAt(csv.header, c)]
            IN  IF cell \in NaValues THEN None ELSE Some(cell)]]

\* lines 26-31: columns that are missing are added with None, and
\* df[EXPECTED_COLS] keeps the expected columns, in that order
keep_expected_cols(df) ==
    [i \in 1..Len(df) |->
        [k \in 1..Len(EXPECTED_COLS) |->
            IF EXPECTED_COLS[k] \in DOMAIN df[i] THEN df[i][EXPECTED_COLS[k]] ELSE None]]

\* to_sql with if_exists="append"
to_sql_append(old, df) ==
    [columns |-> EXPECTED_COLS, rows |-> IF old = None THEN df ELSE old.rows \o df]

\* lines 78-86: df.to_sql(TABLE, if_exists="replace", index=False): the
\* table there was is dropped and a table of the rows of df is created
to_sql(old, df) == [columns |-> EXPECTED_COLS, rows |-> df]

\* line 92: the key is on the first 191 characters of URL
UrlKeyLength == 191

\* lines 48-53: the database is created with the collation
\* utf8mb4_unicode_ci, which compares texts without regard to case; what it
\* compares of a text
utf8mb4_unicode_ci(s) == lower(s)

\* line 92: what the key uniq_url holds of a URL
uniq_url_key(url) == utf8mb4_unicode_ci(SubSeq(url, 1, Min({Len(url), UrlKeyLength})))

\* lines 90-95: ALTER TABLE ... ADD UNIQUE KEY uniq_url (URL(191)) creates
\* the key unless two rows have the same key value (a NULL equals nothing);
\* the error raised then is passed over
add_unique_key(tbl) ==
    LET url(i) == tbl.rows[i][ColumnAt(tbl.columns, "URL")]
    IN  \A i, j \in 1..Len(tbl.rows) :
            (i # j /\ url(i) # None /\ url(j) # None) =>
                uniq_url_key(url(i)[1]) # uniq_url_key(url(j)[1])

\* load_to_mysql.py as a whole, on the file there is (without one line 23
\* raises and nothing is written)
LoadToMysql ==
    /\ out_csv # None
    /\ arg' = out_csv
    /\ table' = to_sql(table, keep_expected_cols(read_csv(out_csv[1])))
    /\ uniq_url' = add_unique_key(table')
    /\ UNCHANGED <<called, res, raised, cache, out_csv, scraper>>

NextScrape ==
    \/ CreateChromeDriver
    \/ DriverGet
    \/ WaitForContent
    \/ LoadMore
    \/ CollectItems
    \/ ProcessItem
    \/ ItemsExhausted
    \/ ExceptException
    \/ Finally
    \/ ReturnDataFrame
    \/ SaveCsv
    \/ LoadToMysql

SpecScrape == InitScrape /\ [][NextScrape]_vars

\* the statements of the function run one after the other and each returns
NextItem ==
    /\ pc = "for"
    /\ idx < Len(items)
    /\ idx' = idx + 1

Proceeds ==
    \/ CreateChromeDriver
    \/ DriverGet
    \/ WaitForContent
    \/ LoadMore
    \/ CollectItems
    \/ ItemsExhausted
    \/ ExceptException
    \/ Finally
    \/ ReturnDataFrame

SpecScrapeFair == SpecScrape /\ WF_vars(Proceeds) /\ WF_idx(NextItem)

\* ---- what the item loop takes from an item
ItemHeading(item) == normalize_title_and_rank(Some(item.h3_text))

ItemLink(item) == absolute_href(item.href)

\* the item has a title or a link (line 362 does not skip it)
HasBasicInfo(item) == ItemHeading(item)[2] # << >> \/ Truthy(ItemLink(item))

\* the key of the item: its URL if present, otherwise "<title>_<rank>"
KeyOf(item) ==
    IF Truthy(ItemLink(item)) THEN ItemLink(item)[1]
    ELSE ItemHeading(item)[2] \o <<"_">> \o format_rank(ItemHeading(item)[1])

\* the row of the item
RowOf(item) ==
    item_row(ItemHeading(item)[1], ItemHeading(item)[2], ItemLink(item), item.votes_str)

\* processing the item raises
ItemRaises(item) == HasBasicInfo(item) /\ parse_votes_to_int_raises(Some(item.votes_str))

\* scrape_imdb_page has returned after its item loop went through items
ItemsScraped == pc = "returned" /\ items # << >> /\ idx = Len(items)

\* the items with basic info
Informative == {i \in 1..Len(items) : HasBasicInfo(items[i])}

\* C21: the table returned by scrape_imdb_page holds one row per distinct
\* item key (the URL if present, otherwise "<title>_<rank>"): the row of the
\* first item of each key and of no later item with that key; two items
\* with different keys are both in the table.  (Stated for pages none of
\* whose items raises while it is processed.)
C21_OneRowPerKey ==
    (ItemsScraped /\ \A i \in 1..Len(items) : ~ItemRaises(items[i])) =>
        /\ \A i \in Informative :
               LET first == Min({j \in Informative : KeyOf(items[j]) = KeyOf(items[i])})
               IN  Count(res[1], RowOf(items[first])) = 1
        /\ Len(res[1]) = Cardinality({KeyOf(items[i]) : i \in Informative})

\* C24: once the driver is created, driver.quit() is called exactly once
\* before scrape_imdb_page returns, on every path (the item loop has run,
\* line 290 has returned early, an exception has been caught); when no
\* driver could be created quit is not called and a table is returned all
\* the same; and the function does return.
C24_DriverQuitOnce ==
    /\ <>(pc = "returned")
    /\ [](quit_calls <= 1)
    /\ [](pc = "returned" =>
            /\ res # None
            /\ quit_calls = (IF driver # None THEN 1 ELSE 0))
    /\ [][quit_calls' # quit_calls => (driver # None /\ pc' \in {"dataframe", "returned"})]_vars

\* the item loop has run, the driver was quit once and a row is returned
C24_Witness ==
    /\ pc = "returned"
    /\ driver # None
    /\ quit_calls = 1
    /\ res # None /\ res[1] # << >>

RECURSIVE ProcessAll(_)
\* rows and seen_urls after the item loop has gone through the items its
ProcessAll(its) ==
    IF its = << >> THEN [rows |-> << >>, seen_urls |-> {}]
    ELSE LET before == ProcessAll(SubSeq(its, 1, Len(its) - 1))
         IN  process_item(its[Len(its)], before.rows, before.seen_urls)

\* C25: scrape_imdb_page never raises to its caller; an exception outside
\* the item loop ends scraping and the rows collected so far are returned,
\* without duplicates; an exception while an item is processed skips that
\* item only: the table is the one the page gives without that item.
C25_ScraperFailuresContained ==
    /\ raised = ""
    /\ pc = "returned" => res = Some(data_frame(rows))
    /\ ItemsScraped =>
           res = Some(data_frame(
                     ProcessAll(SelectSeq(items, LAMBDA it : ~ItemRaises(it))).rows))

\* ---- the table of scrape_imdb_page in the database
\* no two members of the sequence are equal
NoTwoEqual(seq) == \A i, j \in 1..Len(seq) : i # j => seq[i] # seq[j]

\* the URLs of the rows of the table
UrlsOf(df) == [i \in 1..Len(df) |-> df[i].URL]

\* load_to_mysql has loaded the file saved of the table scrape_imdb_page returned
ScrapedLoaded == pc = "returned" /\ table # None

MaxCsvLines == 2

\* the headers of the files: that of the scraper, and one with the columns
\* in another order, a column that is not expected and columns missing
CsvHeaders == {EXPECTED_COLS, <<"URL", "Genre", "Title">>}

\* the line of a file under header which has url for its URL
csv_line(header, url) ==
    [k \in 1..Len(header) |->
        CASE header[k] = "URL" -> url
          [] header[k] = "Title" -> <<"A">>
          [] header[k] = "Rank" -> <<"1">>
          [] header[k] = "Genre" -> <<"D", "r", "a", "m", "a">>
          [] OTHER -> NA]

UrlCells == {TitleLink, TitleLinkInCapitals, NA}

OutCsvFiles ==
    {[header |-> h, lines |-> [i \in 1..Len(urls) |-> csv_line(h, urls[i])]] :
        h \in CsvHeaders, urls \in StringsUpTo(UrlCells, MaxCsvLines)}

InitLoad ==
    /\ arg = None
    /\ called = "load_to_mysql"
    /\ res = None
    /\ raised = ""
    /\ cache = {}
    /\ ScraperIdle
    /\ DatabaseIdle

\* a file is put at CSV_PATH
WriteCsv ==
    /\ \E csv \in OutCsvFiles : out_csv' = Some(csv)
    /\ UNCHANGED <<call, cache, table, uniq_url, scraper>>

NextLoad ==
    \/ WriteCsv
    \/ LoadToMysql

SpecLoad == InitLoad /\ [][NextLoad]_vars

\* the value the file csv has on line i for column c: None when the file
\* has no such column or the cell is read as missing
CsvValue(csv, i, c) ==
    IF \A k \in 1..Len(csv.header) : csv.header[k] # c THEN None
    ELSE LET cell == csv.lines[i][CHOOSE k \in 1..Len(csv.header) : csv.header[k] = c]
         IN  IF cell = << >> \/ cell = NA THEN None ELSE Some(cell)

\* C26: the load replaces the table: after any number of runs the table holds
\* exactly the rows of the file loaded last, in the 8 expected columns Rank,
\* Title, Year, Runtime, IMDb Rating, Votes, Votes_Numeric, URL in that order;
\* a column the file lacks is there and null in every row.
C26_TableIsLastCsv ==
    table # None =>
        /\ table.columns = <<"Rank", "Title", "Year", "Runtime", "IMDb Rating", "Votes",
                             "Votes_Numeric", "URL">>
        /\ Len(table.rows) = Len(arg[1].lines)
        /\ \A i \in 1..Len(table.rows) :
               /\ Len(table.rows[i]) = Len(table.columns)
               /\ \A k \in 1..Len(table.columns) :
                      table.rows[i][k] = CsvValue(arg[1], i, table.columns[k])

\* a file lacking columns was loaded over an earlier table and another file
\* has been put in its place since
C26_Witness ==
    /\ table # None
    /\ arg[1].header # EXPECTED_COLS
    /\ Len(table.rows) = MaxCsvLines
    /\ table.rows[1][1] = None
    /\ table.rows[1][2] # None
    /\ out_csv # arg

(***************************************************************************)
(* The duration category of a Runtime cell: duration_category applied to   *)
(* what runtime_to_hours makes of the cell, in the loader (csv_loader.py   *)
(* lines 58 and 122) and in the dashboard (imdb_dashboard.py lines 85 and  *)
(* 156).                                                                   *)
(***************************************************************************)
InitRuntimeCategory ==
    /\ arg \in RuntimeInputs \cup HugeRuntimes
    /\ called = ""
    /\ res = None
    /\ raised = ""
    /\ ScraperIdle
    /\ cache = {}
    /\ DatabaseIdle

\* the loader: runtime_to_hours lets its exception out and no category is
\* assigned
LoaderRuntimeCategory ==
    /\ called = ""
    /\ called' = "csv_loader.duration_category"
    /\ raised' = (IF loader_runtime_to_hours_raises(arg) THEN "OverflowError" ELSE "")
    /\ res' = (IF loader_runtime_to_hours_raises(arg) THEN None
               ELSE Some(loader_duration_category(loader_runtime_to_hours(arg))))
    /\ UNCHANGED <<arg, scraper, cache, database>>

\* the dashboard
DashboardRuntimeCategory ==
    /\ called = ""
    /\ called' = "imdb_dashboard.duration_category"
    /\ raised' = ""
    /\ res' = Some(dashboard_duration_category(dashboard_runtime_to_hours(arg)))
    /\ UNCHANGED <<arg, scraper, cache, database>>

NextRuntimeCategory == LoaderRuntimeCategory \/ DashboardRuntimeCategory

SpecRuntimeCategory == InitRuntimeCategory /\ [][NextRuntimeCategory]_vars

\* C23: the loader and the dashboard assign the same duration category to
\* every runtime string: the category either path has assigned is the one
\* the other path assigns, and each path assigns one.
C23_SameDurationCategory ==
    /\ called = "csv_loader.duration_category" =>
           /\ raised = ""
           /\ res = Some(dashboard_duration_category(dashboard_runtime_to_hours(arg)))
    /\ called = "imdb_dashboard.duration_category" =>
           /\ ~loader_runtime_to_hours_raises(arg)
           /\ res = Some(loader_duration_category(loader_runtime_to_hours(arg)))

====
